---------------------------- MODULE Spec2Model ----------------------------
(***************************************************************************)
(* Model of the prompt-enhancer request pipeline: the output normalizer    *)
(* (normalizeOutput and its helpers), the model invoker with retry and     *)
(* fallback (generateWithRetry and the fallback loop of POST) and the      *)
(* in-memory response cache of the image flow.                             *)
(*                                                                         *)
(* Three variants of the handler exist in the repository:                  *)
(*   "enhance" : src/src/app/api/enhance/route.ts  (text flow)             *)
(*   "analyze" : src/src/app/api/analyze/route.ts  (image flow)            *)
(*   "legacy"  : src/unnamed/part_001              (image flow, zod-based) *)
(*                                                                         *)
(* JavaScript strings are modelled as sequences of one-character strings,  *)
(* so that trimming, splitting, substring search and the regular           *)
(* expressions of the source are computed character by character.          *)
(***************************************************************************)
EXTENDS Integers, Sequences, FiniteSets, TLC

Flows == {"enhance", "analyze", "legacy"}

(***************************************************************************)
(* String primitives (ECMAScript String.prototype and RegExp semantics).   *)
(***************************************************************************)

\* The characters matched by \s that occur in the model's alphabet.
IsWs(c) == c \in {" ", "\n", "\t"}

\* [0-9]
IsDigit(c) == c \in {"0", "1", "2", "3", "4", "5", "6", "7", "8", "9"}

Digits == <<"0", "1", "2", "3", "4", "5", "6", "7", "8", "9">>

DigitValue(c) == (CHOOSE d \in 1..10 : Digits[d] = c) - 1

\* [0-9.]
IsNumChar(c) == IsDigit(c) \/ c = "."

LowerOf ==
  [A |-> "a", B |-> "b", C |-> "c", D |-> "d", E |-> "e", F |-> "f", G |-> "g",
   H |-> "h", I |-> "i", J |-> "j", K |-> "k", L |-> "l", M |-> "m", N |-> "n",
   O |-> "o", P |-> "p", Q |-> "q", R |-> "r", S |-> "s", T |-> "t", U |-> "u",
   V |-> "v", W |-> "w", X |-> "x", Y |-> "y", Z |-> "z"]

LowerChar(c) == IF c \in DOMAIN LowerOf THEN LowerOf[c] ELSE c

IsLetter(c) == LowerChar(c) \in {LowerOf[k] : k \in DOMAIN LowerOf}

\* \w of a regular expression: [A-Za-z0-9_]
IsWordChar(c) == IsLetter(c) \/ IsDigit(c) \/ c = "_"

\* String.prototype.toLowerCase
ToLowerCase(s) == [pos \in 1..Len(s) |-> LowerChar(s[pos])]

\* String.prototype.includes
Includes(s, p) ==
  \E pos \in 1..(Len(s) - Len(p) + 1) : SubSeq(s, pos, pos + Len(p) - 1) = p

\* The index of the first character at or after i that is not whitespace
\* (Len(s) + 1 when there is none): what a greedy \s* consumes from i.
SkipWs(s, pos) ==
  LET f[j \in 1..(Len(s) + 1)] == IF j <= Len(s) /\ IsWs(s[j]) THEN f[j + 1] ELSE j
  IN  f[pos]

\* String.prototype.trim
\* The index of the last character at or before i that is not whitespace
\* (0 when there is none).
SkipWsBack(s, pos) ==
  LET f[j \in 0..Len(s)] == IF j >= 1 /\ IsWs(s[j]) THEN f[j - 1] ELSE j
  IN  f[pos]

Trim(s) == SubSeq(s, SkipWs(s, 1), SkipWsBack(s, Len(s)))

\* s.replace(/\s+/g, " "): every maximal run of whitespace becomes one space.
\* A whitespace character that follows another one is dropped, the first of
\* a run becomes a space.
CollapseWs(s) ==
  LET marked == [k \in 1..Len(s) |->
                   [c |-> IF IsWs(s[k]) THEN " " ELSE s[k],
                    drop |-> IsWs(s[k]) /\ k > 1 /\ IsWs(s[k - 1])]]
      kept == SelectSeq(marked, LAMBDA x : ~x.drop)
  IN  [k \in 1..Len(kept) |-> kept[k].c]

\* s.replace(/\s+/g, ""): all whitespace removed.
RemoveWs(s) == SelectSeq(s, LAMBDA c : ~IsWs(c))

\* s.split(",")
SplitComma(s) ==
  LET commas == SelectSeq([k \in 1..Len(s) |-> k], LAMBDA k : s[k] = ",")
      cuts == <<0>> \o commas \o <<Len(s) + 1>>
  IN  [j \in 1..(Len(cuts) - 1) |-> SubSeq(s, cuts[j] + 1, cuts[j + 1] - 1)]

\* parts.join(", ")
JoinCommaSpace(parts) ==
  LET f[k \in 0..Len(parts)] ==
        IF k = 0 THEN <<>>
        ELSE IF k = 1 THEN parts[1]
        ELSE f[k - 1] \o <<",", " ">> \o parts[k]
  IN  f[Len(parts)]

\* The same for a greedy [0-9]*.
SkipDigits(s, pos) ==
  LET f[j \in 1..(Len(s) + 1)] == IF j <= Len(s) /\ IsDigit(s[j]) THEN f[j + 1] ELSE j
  IN  f[pos]

\* The literal "--ar" at index i, under the i (ignore case) flag.
ArLiteralAt(s, pos) ==
  /\ pos + 3 <= Len(s)
  /\ ToLowerCase(SubSeq(s, pos, pos + 3)) = <<"-", "-", "a", "r">>

\* [0-9]+\s*:\s*[0-9]+ anchored at i: the index after the match, 0 if none.
\* The character classes are disjoint, so greedy matching never backtracks.
RatioEndAt(s, pos) ==
  LET d1 == SkipDigits(s, pos)
      w1 == SkipWs(s, d1)
      w2 == SkipWs(s, w1 + 1)
      d2 == SkipDigits(s, w2)
  IN  IF d1 > pos /\ w1 <= Len(s) /\ s[w1] = ":" /\ d2 > w2 THEN d2 ELSE 0
NEG_none ==
  <<
    "p","h","o","t","o","r","e","a","l","i","s","t","i","c",","," ","r","e","a","l","i","s","t",
    "i","c"," ","s","k","i","n"," ","p","o","r","e","s",","," ","r","e","a","l"," ","p","h","o",
    "t","o",","," ","c","i","n","e","m","a","t","i","c"," ","p","h","o","t","o"," ","l","i","g",
    "h","t","i","n","g"
  >>

NEG_game_2d_toon ==
  <<
    "p","h","o","t","o","r","e","a","l","i","s","t","i","c",","," ","r","e","a","l","i","s","t",
    "i","c",","," ","r","e","a","l"," ","p","h","o","t","o",","," ","c","o","m","p","l","e","x",
    " ","t","e","x","t","u","r","e",","," ","n","o","i","s","y"," ","l","i","g","h","t","i","n",
    "g",","," ","H","D","R"," ","p","h","o","t","o",","," ","s","k","i","n"," ","p","o","r","e",
    "s"
  >>

NEG_anime_cel ==
  <<
    "p","h","o","t","o","r","e","a","l","i","s","t","i","c",","," ","r","e","a","l"," ","p","h",
    "o","t","o",","," ","d","e","t","a","i","l","e","d"," ","s","k","i","n"," ","p","o","r","e",
    "s",","," ","c","a","m","e","r","a"," ","n","o","i","s","e",","," ","H","D","R"," ","p","h",
    "o","t","o"
  >>

NEG_chibi ==
  <<
    "p","h","o","t","o","r","e","a","l","i","s","t","i","c",","," ","r","e","a","l","i","s","t",
    "i","c"," ","a","n","a","t","o","m","y",","," ","a","d","u","l","t"," ","p","r","o","p","o",
    "r","t","i","o","n","s",","," ","r","e","a","l"," ","p","h","o","t","o",","," ","c","r","e",
    "e","p","y"," ","r","e","a","l","i","s","m"
  >>

NEG_vector_logo ==
  <<
    "p","h","o","t","o","r","e","a","l","i","s","t","i","c",","," ","3","d"," ","r","e","n","d",
    "e","r",","," ","b","e","v","e","l",","," ","h","e","a","v","y"," ","t","e","x","t","u","r",
    "e",","," ","c","o","m","p","l","e","x"," ","b","a","c","k","g","r","o","u","n","d",","," ",
    "g","r","a","d","i","e","n","t","s"," ","e","v","e","r","y","w","h","e","r","e"
  >>

NEG_pixel_art ==
  <<
    "p","h","o","t","o","r","e","a","l","i","s","t","i","c",","," ","s","m","o","o","t","h"," ",
    "g","r","a","d","i","e","n","t","s",","," ","a","n","t","i","-","a","l","i","a","s","i","n",
    "g",","," ","h","i","g","h","-","r","e","s"," ","p","h","o","t","o",","," ","b","l","u","r"
  >>

NEG_handpainted_fantasy ==
  <<
    "p","h","o","t","o","r","e","a","l","i","s","t","i","c",","," ","r","e","a","l"," ","p","h",
    "o","t","o",","," ","m","o","d","e","r","n"," ","c","a","m","e","r","a"," ","a","r","t","i",
    "f","a","c","t","s",","," ","l","e","n","s"," ","d","i","r","t",","," ","o","v","e","r","-",
    "s","h","a","r","p"
  >>

NEG_3d_stylized_pbr ==
  <<
    "p","h","o","t","o","r","e","a","l","i","s","t","i","c",","," ","r","e","a","l"," ","p","h",
    "o","t","o",","," ","u","l","t","r","a"," ","r","e","a","l","i","s","t","i","c"," ","s","k",
    "i","n",","," ","d","o","c","u","m","e","n","t","a","r","y"," ","l","i","g","h","t","i","n",
    "g",","," ","f","i","l","m"," ","g","r","a","i","n"
  >>

NEG_3d_clay_vinyl ==
  <<
    "p","h","o","t","o","r","e","a","l","i","s","t","i","c",","," ","h","a","r","d","-","s","u",
    "r","f","a","c","e"," ","r","e","a","l","i","s","m",","," ","s","h","a","r","p"," ","p","o",
    "r","e","s",","," ","g","r","i","t","t","y"," ","t","e","x","t","u","r","e",","," ","h","a",
    "r","s","h"," ","s","h","a","d","o","w","s"
  >>

NEG_ui_icon ==
  <<
    "p","h","o","t","o","r","e","a","l","i","s","t","i","c",","," ","c","o","m","p","l","e","x",
    " ","b","a","c","k","g","r","o","u","n","d",","," ","t","i","n","y"," ","u","n","r","e","a",
    "d","a","b","l","e"," ","d","e","t","a","i","l","s",","," ","l","o","w"," ","c","o","n","t",
    "r","a","s","t",","," ","t","e","x","t"
  >>

BASELINE_enhance ==
  <<
    "t","e","x","t",","," ","w","o","r","d","s",","," ","l","e","t","t","e","r","s",","," ","w",
    "a","t","e","r","m","a","r","k",","," ","s","i","g","n","a","t","u","r","e",","," ","U","I",
    " ","o","v","e","r","l","a","y",","," ","f","r","a","m","e",","," ","b","o","r","d","e","r",
    ","," ","b","l","u","r","r","y",","," ","l","o","w"," ","q","u","a","l","i","t","y"
  >>

BASELINE_analyze ==
  <<
    "t","e","x","t",","," ","w","o","r","d","s",","," ","l","e","t","t","e","r","s",","," ","w",
    "a","t","e","r","m","a","r","k",","," ","s","i","g","n","a","t","u","r","e",","," ","U","I",
    ","," ","f","r","a","m","e",","," ","b","o","r","d","e","r",","," ","b","l","u","r","r","y",
    ","," ","l","o","w"," ","q","u","a","l","i","t","y"
  >>

BASELINE_legacy ==
  <<
    "t","e","x","t",","," ","w","o","r","d","s",","," ","l","e","t","t","e","r","s",","," ","w",
    "a","t","e","r","m","a","r","k",","," ","s","i","g","n","a","t","u","r","e",","," ","l","o",
    "g","o",","," ","U","I",","," ","f","r","a","m","e",","," ","b","o","r","d","e","r",","," ",
    "b","l","u","r","r","y",","," ","l","o","w"," ","q","u","a","l","i","t","y"
  >>

DEFAULT_CLEAN_enhance ==
  <<
    "D","e","s","c","r","i","b","e"," ","t","h","e"," ","s","u","b","j","e","c","t"," ","c","l",
    "e","a","r","l","y"," ","i","n"," ","1"," ","s","e","n","t","e","n","c","e",","," ","s","t",
    "y","l","i","z","e","d"," ","g","a","m","e"," ","a","s","s","e","t","."
  >>

DEFAULT_CLEAN_analyze ==
  <<
    "A"," ","{","S","U","B","J","E","C","T","}"," ","i","n"," ","t","h","e"," ","s","a","m","e",
    " ","s","t","y","l","e"," ","a","s"," ","t","h","e"," ","r","e","f","e","r","e","n","c","e",
    " ","i","m","a","g","e",","," ","g","a","m","e","-","a","s","s","e","t"," ","f","r","i","e",
    "n","d","l","y","."
  >>
S_503 == <<"5","0","3">>

S_UNAVAILABLE == <<"U","N","A","V","A","I","L","A","B","L","E">>

S_overloaded == <<"o","v","e","r","l","o","a","d","e","d">>

S_429 == <<"4","2","9">>

S_RESOURCE_EXHAUSTED == <<"R","E","S","O","U","R","C","E","_","E","X","H","A","U","S","T","E","D">>

S_quota == <<"q","u","o","t","a">>

MSG_overloaded == <<"T","h","e"," ","m","o","d","e","l"," ","i","s"," ","o","v","e","r","l","o","a","d","e","d",".">>

MSG_quota == <<"R","E","S","O","U","R","C","E","_","E","X","H","A","U","S","T","E","D">>

MSG_both == <<"4","2","9"," ","U","N","A","V","A","I","L","A","B","L","E">>

MSG_other == <<"f","e","t","c","h"," ","f","a","i","l","e","d">>

MSG_type ==
  <<"(","e","x","t","r","a"," ","|","|"," ","\"","\"",")",".","t","r","i","m"," ","i","s"," ","n","o","t"," ","a"," ","f","u","n","c","t","i","o","n">>

MSG_zod == <<"E","x","p","e","c","t","e","d"," ","o","b","j","e","c","t">>

TXT_good == <<"{","\"","c","l","e","a","n","\"",":","\"","a"," ","-","-","a","r"," ","1","6",":","9","\"","}">>

TXT_null == <<"n","u","l","l">>

TXT_nonjson == <<"o","o","p","s">>

TXT_emptyObject == <<"{","}">>

(***************************************************************************)
(* Helpers of the normalizer.                                              *)
(***************************************************************************)

\* /--ar\s*([0-9]+\s*:\s*[0-9]+)/i anchored at i: <<start, end>> of the
\* capture group (end exclusive), <<0, 0>> if there is no match at i.
FlagCaptureAt(s, pos) ==
  IF ~ArLiteralAt(s, pos) THEN <<0, 0>>
  ELSE LET g == SkipWs(s, pos + 4)
           e == RatioEndAt(s, g)
       IN  IF e = 0 THEN <<0, 0>> ELSE <<g, e>>

\* /\b([0-9]{1,2}\s*:\s*[0-9]{1,2})\b/ anchored at i: the index after the
\* match, 0 if none.  A run of one or two digits is taken whole: taking one
\* digit of two leaves a digit where ":" or the closing \b is required.
PlainRatioEndAt(s, pos) ==
  LET d1 == SkipDigits(s, pos)
      w1 == SkipWs(s, d1)
      w2 == SkipWs(s, w1 + 1)
      d2 == SkipDigits(s, w2)
  IN  IF /\ pos <= Len(s)
         /\ (pos = 1 \/ ~IsWordChar(s[pos - 1]))
         /\ d1 - pos \in {1, 2}
         /\ w1 <= Len(s) /\ s[w1] = ":"
         /\ d2 - w2 \in {1, 2}
         /\ (d2 > Len(s) \/ ~IsWordChar(s[d2]))
      THEN d2 ELSE 0

extractAspectRatio(text) ==
  IF text = <<>> THEN <<>>
  ELSE LET mjAt == {pos \in 1..Len(text) : FlagCaptureAt(text, pos)[1] # 0}
           plAt == {pos \in 1..Len(text) : PlainRatioEndAt(text, pos) # 0}
       IN  IF mjAt # {}
           THEN LET pos == CHOOSE k \in mjAt : \A j \in mjAt : k <= j
                    c == FlagCaptureAt(text, pos)
                IN  RemoveWs(SubSeq(text, c[1], c[2] - 1))
           ELSE IF plAt # {}
           THEN LET pos == CHOOSE k \in plAt : \A j \in plAt : k <= j
                IN  RemoveWs(SubSeq(text, pos, PlainRatioEndAt(text, pos) - 1))
           ELSE <<>>

\* /\s*--ar\s*[0-9]+\s*:\s*[0-9]+\s*/gi anchored at i: the index after the
\* match, 0 if none.
StripMatchEndAt(s, pos) ==
  LET a == SkipWs(s, pos)
  IN  IF ~ArLiteralAt(s, a) THEN 0
      ELSE LET e == RatioEndAt(s, SkipWs(s, a + 4))
           IN  IF e = 0 THEN 0 ELSE SkipWs(s, e)

\* text.replace(<the pattern above>, " "): matches are found left to right,
\* each search resuming where the previous match ended.
ReplaceFlags(s) ==
  LET f[pos \in 1..(Len(s) + 1)] ==
        IF pos > Len(s) THEN <<>>
        ELSE LET e == StripMatchEndAt(s, pos)
             IN  IF e # 0 THEN <<" ">> \o f[e] ELSE <<s[pos]>> \o f[pos + 1]
  IN  f[1]

stripAspectRatioFlags(text) ==
  IF text = <<>> THEN text
  ELSE Trim(CollapseWs(ReplaceFlags(text)))

\* e.split(",").map((s) => s.trim()).filter(Boolean)
TrimmedParts(e) ==
  LET raw == SplitComma(e)
      trimmed == [pos \in 1..Len(raw) |-> Trim(raw[pos])]
  IN  SelectSeq(trimmed, LAMBDA p : p # <<>>)

mergeNegative(base, extra) ==
  LET b == Trim(base)
      e == Trim(extra)
  IN  IF b = <<>> /\ e = <<>> THEN <<>>
      ELSE IF b = <<>> THEN e
      ELSE IF e = <<>> THEN b
      ELSE LET lower == ToLowerCase(b)
               parts == TrimmedParts(e)
               toAdd == SelectSeq(parts, LAMBDA p : ~Includes(lower, ToLowerCase(p)))
           IN  Trim(CollapseWs(b \o <<",", " ">> \o JoinCommaSpace(toAdd)))

(***************************************************************************)
(* Parsed JSON values.  A value is a record [t, s]: t is what typeof gives *)
(* ("undefined" for a missing property, "null" and "array" told apart from *)
(* other objects), s the characters of a string.  The raw model output is  *)
(* a record whose t is the type of the parsed value and whose other fields *)
(* are its properties when it is an object; params carries its own type    *)
(* and, when it is an object, its four properties.                         *)
(***************************************************************************)
Undefined == [t |-> "undefined", s |-> <<>>]

Str(chars) == [t |-> "string", s |-> chars]

NonString(type) == [t |-> type, s |-> <<>>]

NoParams ==
  [t |-> "undefined", s |-> <<>>, aspectRatio |-> Undefined,
   aspect_ratio |-> Undefined, notes |-> Undefined, note |-> Undefined]

ParamsOfType(type, chars) == [NoParams EXCEPT !.t = type, !.s = chars]

ParamsObject(ar, ar2, notes, note) ==
  [t |-> "object", s |-> <<>>, aspectRatio |-> ar, aspect_ratio |-> ar2,
   notes |-> notes, note |-> note]

RawObject(clean, detailed, extreme, negative, params) ==
  [t |-> "object", clean |-> clean, detailed |-> detailed, extreme |-> extreme,
   negative |-> negative, params |-> params]

\* A parsed value that is not a plain object carries none of the properties.
RawOfType(type) ==
  [t |-> type, clean |-> Undefined, detailed |-> Undefined, extreme |-> Undefined,
   negative |-> Undefined, params |-> NoParams]

\* raw && typeof raw === "object" ? raw : {}
\* typeof is "object" for arrays too; null, "", 0 and false are falsy.
CoerceRaw(raw) == IF raw.t \in {"object", "array"} THEN raw ELSE RawOfType("object")

asString(v) == IF v.t = "string" THEN v.s ELSE <<>>

\* a || b on strings
OrElse(a, b) == IF a # <<>> THEN a ELSE b

STYLE_NEGATIVE(artStyle) ==
  CASE artStyle = "none" -> NEG_none
    [] artStyle = "game-2d-toon" -> NEG_game_2d_toon
    [] artStyle = "anime-cel" -> NEG_anime_cel
    [] artStyle = "chibi" -> NEG_chibi
    [] artStyle = "vector-logo" -> NEG_vector_logo
    [] artStyle = "pixel-art" -> NEG_pixel_art
    [] artStyle = "handpainted-fantasy" -> NEG_handpainted_fantasy
    [] artStyle = "3d-stylized-pbr" -> NEG_3d_stylized_pbr
    [] artStyle = "3d-clay-vinyl" -> NEG_3d_clay_vinyl
    [] artStyle = "ui-icon" -> NEG_ui_icon
    [] OTHER -> NEG_none

\* Names the table inherits from Object.prototype.  STYLE_NEGATIVE[name] is
\* then a function (an object for "__proto__"), not undefined, so ?? keeps
\* it, and mergeNegative calls (extra || "").trim on it, which throws a
\* TypeError.
InheritedKeys == {"constructor", "toString", "__proto__"}

StyleKeys ==
  {"none", "game-2d-toon", "anime-cel", "chibi", "vector-logo", "pixel-art",
   "handpainted-fantasy", "3d-stylized-pbr", "3d-clay-vinyl", "ui-icon"}

\* The baseline denylist merged after the style list.
BaselineNegative(f) ==
  CASE f = "enhance" -> BASELINE_enhance
    [] f = "analyze" -> BASELINE_analyze
    [] f = "legacy" -> BASELINE_legacy

\* The sentence substituted for an empty clean field.
DefaultClean(f) ==
  IF f = "enhance" THEN DEFAULT_CLEAN_enhance ELSE DEFAULT_CLEAN_analyze

\* The result of a call that threw instead of returning.
Thrown ==
  [threw |-> TRUE, error |-> "ZodError", clean |-> <<>>, detailed |-> <<>>,
   extreme |-> <<>>, negative |-> <<>>,
   params |-> [aspectRatio |-> Undefined, notes |-> Undefined]]

\* The result of a call in which mergeNegative threw a TypeError.
ThrownTypeError == [Thrown EXCEPT !.error = "TypeError"]

Returned(clean, detailed, extreme, negative, params) ==
  [threw |-> FALSE, error |-> "none", clean |-> clean, detailed |-> detailed,
   extreme |-> extreme,
   negative |-> negative, params |-> params]

\* A variant that reads only the aspectRatio and notes properties.
CoerceParamsNoAlias(f, p) ==
  IF p.t = "string"
  THEN [aspectRatio |-> Undefined, notes |-> Str(p.s)]
  ELSE IF p.t = "object"
  THEN [aspectRatio |-> IF p.aspectRatio.t = "string" /\ p.aspectRatio.s # <<>>
                        THEN p.aspectRatio ELSE Undefined,
        notes |-> IF p.notes.t = "string" /\ p.notes.s # <<>>
                  THEN p.notes ELSE Undefined]
  ELSE [aspectRatio |-> Undefined, notes |-> Undefined]

\* The params object built from raw.params.  The routes set a key only for
\* a non-empty string (if (ar) ..., if (notes) ...); the legacy version
\* stores whatever string it read, empty or not.
CoerceParams(f, p) ==
  IF p.t = "string"
  THEN [aspectRatio |-> Undefined, notes |-> Str(p.s)]
  ELSE IF p.t = "object"
  THEN LET ar == IF p.aspectRatio.t = "string" THEN p.aspectRatio
                 ELSE IF p.aspect_ratio.t = "string" THEN p.aspect_ratio
                 ELSE Undefined
           notes == IF p.notes.t = "string" THEN p.notes
                    ELSE IF p.note.t = "string" THEN p.note
                    ELSE Undefined
       IN  IF f = "legacy" THEN [aspectRatio |-> ar, notes |-> notes]
           ELSE [aspectRatio |-> IF ar.s # <<>> THEN ar ELSE Undefined,
                 notes |-> IF notes.s # <<>> THEN notes ELSE Undefined]
  ELSE [aspectRatio |-> Undefined, notes |-> Undefined]

\* A text field with its fallback.  The routes write asString(v) || prev, so
\* an empty string falls back too; the legacy version writes
\* typeof v === "string" ? v : prev, so only a non-string does.
FieldOr(f, v, prev) ==
  IF f = "legacy" THEN (IF v.t = "string" THEN v.s ELSE prev)
  ELSE OrElse(asString(v), prev)

\* OutputSchema.parse of the legacy version: four z.string() fields and a
\* params object of two optional strings.
OutputSchemaAccepts(res) ==
  /\ res.params.aspectRatio.t \in {"string", "undefined"}
  /\ res.params.notes.t \in {"string", "undefined"}

\* z.object({...}).parse(raw) of the legacy version: every property is
\* z.any().optional(), so the only failure is a raw value that is not a
\* plain object (null, array, string, number, boolean), which throws.
LooseSchemaAccepts(raw) == raw.t = "object"

\* The final three lines of the routes' normalizeOutput ("ensure required
\* fields exist"); the legacy version has none and returns the fields as
\* they are.
EnsureRequired(f, clean0, detailed0, extreme0, negative0, params0) ==
  IF f = "legacy"
  THEN LET res == Returned(clean0, detailed0, extreme0, negative0, params0)
       IN  IF OutputSchemaAccepts(res) THEN res ELSE Thrown
  ELSE LET c == IF clean0 = <<>> THEN DefaultClean(f) ELSE clean0
           d == IF detailed0 = <<>> THEN c ELSE detailed0
           x == IF extreme0 = <<>> THEN d ELSE extreme0
       IN  Returned(c, d, x, negative0, params0)

\* A variant that scans the texts in the opposite order.
arFromTextCleanFirst(params, extreme, detailed, clean) ==
  OrElse(params.aspectRatio.s,
    OrElse(extractAspectRatio(clean),
      OrElse(extractAspectRatio(detailed), extractAspectRatio(extreme))))

\* params.aspectRatio || extractAspectRatio(extreme) ||
\* extractAspectRatio(detailed) || extractAspectRatio(clean)
arFromText(params, extreme, detailed, clean) ==
  OrElse(params.aspectRatio.s,
    OrElse(extractAspectRatio(extreme),
      OrElse(extractAspectRatio(detailed), extractAspectRatio(clean))))

normalizeOutput(f, raw, artStyle) ==
  IF f = "legacy" /\ ~LooseSchemaAccepts(raw) THEN Thrown
  ELSE IF artStyle \in InheritedKeys THEN ThrownTypeError
  ELSE
    LET r == CoerceRaw(raw)
        clean == asString(r.clean)
        detailed == FieldOr(f, r.detailed, clean)
        extreme == FieldOr(f, r.extreme, detailed)
        negative == asString(r.negative)
        params == CoerceParams(f, r.params)
        ar == arFromText(params, extreme, detailed, clean)
        params2 == IF ar # <<>>
                   THEN [params EXCEPT !.aspectRatio = Str(ar)]
                   ELSE params
        neg1 == mergeNegative(negative, STYLE_NEGATIVE(artStyle))
        neg2 == mergeNegative(neg1, BaselineNegative(f))
    IN  EnsureRequired(f, stripAspectRatioFlags(clean),
                       stripAspectRatioFlags(detailed),
                       stripAspectRatioFlags(extreme), neg2, params2)

(***************************************************************************)
(* Provider errors and their classification.  An error is its message and  *)
(* what JSON.parse of the message yields for error.code and error.status   *)
(* (0 and <<>> when the message is not JSON or lacks the property), and    *)
(* for error.details: the elements of the array, each with the text of its *)
(* "@type" and its retryDelay (no element when the message is not JSON or  *)
(* details is not an array).                                               *)
(***************************************************************************)
ProviderError(name, msg, code, status) ==
  [name |-> name, msg |-> msg, code |-> code, status |-> status, details |-> <<>>]

\* An element of error.details.
Detail(type, retryDelay) == [type |-> type, retryDelay |-> retryDelay]

NoError == ProviderError("none", <<>>, 0, <<>>)

\* The errors generateContent is made to throw in the model: overloaded
\* only, quota only, both at once, and neither.
ProviderErrors ==
  {ProviderError("overloaded", MSG_overloaded, 0, <<>>),
   ProviderError("quota", MSG_quota, 0, <<>>),
   ProviderError("both", MSG_both, 0, <<>>),
   ProviderError("other", MSG_other, 0, <<>>)}

ErrorNamed(name) == CHOOSE e \in ProviderErrors : e.name = name

isOverloadedError(e) ==
  \/ Includes(e.msg, S_503)
  \/ Includes(e.msg, S_UNAVAILABLE)
  \/ Includes(ToLowerCase(e.msg), S_overloaded)
  \/ e.code = 503
  \/ e.status = S_UNAVAILABLE

isQuotaExceededError(e) ==
  \/ Includes(e.msg, S_429)
  \/ Includes(e.msg, S_RESOURCE_EXHAUSTED)
  \/ Includes(ToLowerCase(e.msg), S_quota)
  \/ e.code = 429
  \/ e.status = S_RESOURCE_EXHAUSTED

(***************************************************************************)
(* extractRetryAfterSeconds.  A JavaScript number is kept as what the code *)
(* and the serializers tell apart: NaN, Infinity, or a finite value with   *)
(* its whole part and whether it has a fractional part; null is the        *)
(* function's other result.                                                *)
(***************************************************************************)
Null == [kind |-> "null", whole |-> 0, frac |-> FALSE]

NaN == [kind |-> "NaN", whole |-> 0, frac |-> FALSE]

Infinity == [kind |-> "Infinity", whole |-> 0, frac |-> FALSE]

\* A finite number of ten or more integer digits: a whole number as a
\* double, of which only that much is kept.
Huge == [kind |-> "huge", whole |-> 0, frac |-> FALSE]

Finite(whole, frac) == [kind |-> "number", whole |-> whole, frac |-> frac]

S_retry_in == <<"r","e","t","r","y"," ","i","n">>

S_RetryInfo == <<"R","e","t","r","y","I","n","f","o">>

\* The index of the first character at or after pos that is not in [0-9.]
\* (Len(s) + 1 when there is none): what a greedy [0-9.]* consumes.
SkipNumChars(s, pos) ==
  LET places == [k \in 1..(Len(s) + 2 - pos) |-> pos + k - 1]
  IN  Head(SelectSeq(places, LAMBDA j : j > Len(s) \/ ~IsNumChar(s[j])))

\* /retry in\s+([0-9.]+)s/i anchored at pos: the capture, <<>> when there
\* is no match.  The classes are disjoint and "s" is in neither, so a
\* match takes the whole run of each class.
RetryPhraseAt(s, pos) ==
  IF pos + 8 > Len(s) \/ ToLowerCase(SubSeq(s, pos, pos + 7)) # S_retry_in THEN <<>>
  ELSE LET n0 == SkipWs(s, pos + 8)
           n1 == SkipNumChars(s, n0)
       IN  IF n0 > pos + 8 /\ n1 > n0 /\ n1 <= Len(s) /\ LowerChar(s[n1]) = "s"
           THEN SubSeq(s, n0, n1 - 1)
           ELSE <<>>

\* msg.match(/retry in\s+([0-9.]+)s/i)?.[1]: the capture of the leftmost
\* match, <<>> when there is none.
RetryPhrase(msg) ==
  LET places == [k \in 1..Len(msg) |-> k]
      found == SelectSeq(places, LAMBDA j : RetryPhraseAt(msg, j) # <<>>)
  IN  IF found = <<>> THEN <<>> ELSE RetryPhraseAt(msg, Head(found))

\* delay.match(/([0-9.]+)s/i)?.[1]: the first run of [0-9.] characters
\* that an "s" follows.
DelayCapture(delay) ==
  LET places == [k \in 1..Len(delay) |-> k]
      found == SelectSeq(places,
                         LAMBDA j : /\ IsNumChar(delay[j])
                                    /\ SkipNumChars(delay, j) <= Len(delay)
                                    /\ LowerChar(delay[SkipNumChars(delay, j)]) = "s")
  IN  IF found = <<>> THEN <<>>
      ELSE SubSeq(delay, Head(found), SkipNumChars(delay, Head(found)) - 1)

\* The most integer digits of a decimal text whose value is kept exactly.
ExactDigits == 9

\* The fewest integer digits from which every decimal text is above the
\* largest double (about 1.8e308) and converts to Infinity.
OverflowDigits == 310

\* Number(text) for a non-empty text of [0-9.] characters: NaN unless the
\* text is digits with at most one dot and at least one digit.  The harness
\* draws fractions short enough for the double to keep them.
NumberOf(text) ==
  LET places == [k \in 1..Len(text) |-> k]
      dots == SelectSeq(places, LAMBDA j : text[j] = ".")
      dot == IF dots = <<>> THEN Len(text) + 1 ELSE Head(dots)
      significant == SelectSeq(places, LAMBDA j : j < dot /\ text[j] # "0")
      digits == IF significant = <<>> THEN <<>>
                ELSE SubSeq(text, Head(significant), dot - 1)
      value[j \in 0..Len(digits)] ==
        IF j = 0 THEN 0 ELSE 10 * value[j - 1] + DigitValue(digits[j])
  IN  IF Len(dots) > 1 \/ Len(dots) = Len(text) THEN NaN
      ELSE IF Len(digits) >= OverflowDigits THEN Infinity
      ELSE IF Len(digits) > ExactDigits THEN Huge
      ELSE Finite(value[Len(digits)],
                  \E j \in (dot + 1)..Len(text) : text[j] # "0")

\* Math.ceil
Ceil(v) ==
  IF v.kind = "number" THEN Finite(v.whole + (IF v.frac THEN 1 ELSE 0), FALSE) ELSE v

\* Math.max(1, v): NaN when v is NaN.
AtLeastOne(v) ==
  IF v.kind = "number" /\ v.whole < 1 THEN Finite(1, FALSE) ELSE v

\* Math.max(1, Math.ceil(Number(text)))
SecondsOf(text) == AtLeastOne(Ceil(NumberOf(text)))

\* A variant that consults the details before the message.
extractRetryAfterDetailsFirst(e) ==
  LET places == [k \in 1..Len(e.details) |-> k]
      found == SelectSeq(places, LAMBDA j : Includes(e.details[j].type, S_RetryInfo))
      delay == IF found = <<>> THEN Undefined ELSE e.details[Head(found)].retryDelay
  IN  IF delay.t = "string" /\ DelayCapture(delay.s) # <<>>
      THEN SecondsOf(DelayCapture(delay.s))
      ELSE IF RetryPhrase(e.msg) # <<>> THEN SecondsOf(RetryPhrase(e.msg))
      ELSE Null

extractRetryAfterSeconds(e) ==
  IF RetryPhrase(e.msg) # <<>> THEN SecondsOf(RetryPhrase(e.msg))
  ELSE LET places == [k \in 1..Len(e.details) |-> k]
           found == SelectSeq(places,
                              LAMBDA j : Includes(e.details[j].type, S_RetryInfo))
           delay == IF found = <<>> THEN Undefined
                    ELSE e.details[Head(found)].retryDelay
       IN  IF delay.t = "string" /\ DelayCapture(delay.s) # <<>>
           THEN SecondsOf(DelayCapture(delay.s))
           ELSE Null

(***************************************************************************)
(* The retry schedule and the fallback list.                               *)
(***************************************************************************)
\* A schedule of five attempts.
delaysOfFive(f) == <<0, 500, 1200, 2500, 4500>>

\* A schedule of seven attempts.
delaysOfSeven(f) == <<0, 500, 1200, 2500, 4500, 8000, 12000>>

delays(f) ==
  IF f = "enhance" THEN <<0, 500, 1200, 2500, 4500, 8000>>
  ELSE <<0, 600, 1400, 2800, 5200, 9000>>

\* The list with its first two models exchanged.
modelFallbacksSwapped == <<"gemini-2.5-flash", "gemini-2.5-flash-lite", "gemini-2.0-flash">>

modelFallbacks == <<"gemini-2.5-flash-lite", "gemini-2.5-flash", "gemini-2.0-flash">>

\* A catch block that lacks the quota test: it retries whatever is overloaded.
RetryWithoutQuotaTest(e) ==
  IF ~isOverloadedError(e) THEN "throw" ELSE "retry"

\* A catch block that lacks the overloaded test: it retries whatever is
\* not quota-exceeded.
RetryWithoutOverloadedTest(e) ==
  IF isQuotaExceededError(e) THEN "throw" ELSE "retry"

\* The catch block of generateWithRetry: rethrow the error, or fall through
\* to the next iteration of the attempt loop.
RetryDecision(e) ==
  IF isQuotaExceededError(e) THEN "throw"
  ELSE IF ~isOverloadedError(e) THEN "throw"
  ELSE "retry"

\* A fallback loop that swallows every error.
FallbackOnAnyError(e) == "continue"

\* The catch block of the fallback loop: continue with the next model, or
\* rethrow to the handler's catch.
FallbackDecision(e) ==
  IF isQuotaExceededError(e) THEN "continue"
  ELSE IF isOverloadedError(e) THEN "continue"
  ELSE "throw"

(***************************************************************************)
(* HTTP responses.                                                         *)
(***************************************************************************)
NoResult == [Thrown EXCEPT !.threw = FALSE, !.error = "none"]

\* No Retry-After header.
NoHeader == [present |-> FALSE, value |-> Null]

\* A response: its status, the error, detail, retryAfterSeconds properties
\* or the data of its JSON body (Null for a property that is not there), and
\* its Retry-After header.
Response(status, error, detail, data) ==
  [status |-> status, error |-> error, detail |-> detail, data |-> data,
   retryAfterSeconds |-> Null, retryAfter |-> NoHeader]

\* JSON.stringify of a number: NaN and Infinity are written as null.
JsonNumber(v) == IF v.kind \in {"NaN", "Infinity"} THEN Null ELSE v

\* Whether a number or null is truthy: not null, 0 or NaN.
Truthy(v) == v.kind \in {"Infinity", "huge"} \/ (v.kind = "number" /\ (v.whole # 0 \/ v.frac))

\* { "Retry-After": String(v) }: the header, with the number its text denotes.
RetryAfterHeader(v) == [present |-> TRUE, value |-> v]

\* The 429 response, given what extractRetryAfterSeconds returned:
\*   NextResponse.json({ error, detail, retryAfterSeconds },
\*     { status: 429, headers: retryAfterSeconds ? { "Retry-After": ... } : undefined })
QuotaResponseWith(err, seconds) ==
  [status |-> 429, error |-> "Quota exceeded", detail |-> err.msg, data |-> NoResult,
   retryAfterSeconds |-> JsonNumber(seconds),
   retryAfter |-> IF Truthy(seconds) THEN RetryAfterHeader(seconds) ELSE NoHeader]

QuotaResponse(err) == QuotaResponseWith(err, extractRetryAfterSeconds(err))

NoResponseYet == Response(0, "", <<>>, NoResult)

\* An answer for the exhausted list that does not look at the last error.
ExhaustedAlwaysOverloaded(err) == Response(503, "Model overloaded", err.msg, NoResult)

\* An exhausted block that tests the overloaded condition before quota.
ExhaustedOverloadedFirst(err) ==
  IF err # NoError /\ isOverloadedError(err)
  THEN Response(503, "Model overloaded", err.msg, NoResult)
  ELSE IF err # NoError /\ isQuotaExceededError(err)
  THEN QuotaResponse(err)
  ELSE Response(503, "Model overloaded", err.msg, NoResult)

\* if (!response) { ... }: the fallback loop ended without a response.
ExhaustedResponse(err) ==
  IF err # NoError /\ isQuotaExceededError(err)
  THEN QuotaResponse(err)
  ELSE Response(503, "Model overloaded", err.msg, NoResult)

\* A catch block that answers nothing: the exception escapes the handler.
CatchNothing(f, err) == NoResponseYet

\* The handler's catch block.  The routes classify the error again; the
\* legacy version answers 500 for every exception.
CatchResponse(f, err) ==
  IF f = "legacy" THEN Response(500, "Analyze failed", err.msg, NoResult)
  ELSE IF isQuotaExceededError(err)
  THEN QuotaResponse(err)
  ELSE IF isOverloadedError(err)
  THEN Response(503, "Model overloaded", err.msg, NoResult)
  ELSE Response(500, IF f = "enhance" THEN "Enhance failed" ELSE "Analyze failed",
                err.msg, NoResult)

(***************************************************************************)
(* Provider responses: the text getResponseText extracts, and JSON.parse   *)
(* on the texts the model lets the provider return.                        *)
(***************************************************************************)
ProviderTexts == {TXT_good, TXT_null, TXT_nonjson, <<>>}

NotJson == [ok |-> FALSE, value |-> RawOfType("undefined")]

Parsed(v) == [ok |-> TRUE, value |-> v]

JSON_parse(text) ==
  CASE text = TXT_good ->
         Parsed(RawObject(Str(<<"a", " ", "-", "-", "a", "r", " ", "1", "6", ":", "9">>),
                          Undefined, Undefined, Undefined, NoParams))
    [] text = TXT_emptyObject ->
         Parsed(RawObject(Undefined, Undefined, Undefined, Undefined, NoParams))
    [] text = TXT_null -> Parsed(RawOfType("null"))
    [] OTHER -> NotJson

\* The error normalizeOutput throws in the legacy version (a ZodError).
ZodError == ProviderError("zod", MSG_zod, 0, <<>>)

\* The error of calling trim on a value that is not a string.
TypeError == ProviderError("type", MSG_type, 0, <<>>)

\* The exception of a call of normalizeOutput that threw.
ErrorThrown(data) == IF data.error = "TypeError" THEN TypeError ELSE ZodError

(***************************************************************************)
(* The in-memory cache of the image flow: a Map, modelled as the sequence  *)
(* of its entries in insertion order.                                      *)
(***************************************************************************)
CACHE_TTL_MS == 10 * 60 * 1000

CACHE_MAX == 200

CacheEntry(key, value, expiresAt) ==
  [key |-> key, value |-> value, expiresAt |-> expiresAt]

CacheHas(cache, key) == \E k \in 1..Len(cache) : cache[k].key = key

CacheIndex(cache, key) == CHOOSE k \in 1..Len(cache) : cache[k].key = key

CacheDelete(cache, key) == SelectSeq(cache, LAMBDA en : en.key # key)

\* cacheGet: <<the cache afterwards, found, value>>.
\* A variant that returns the entry found whatever its expiry.
cacheGetNoExpiry(cache, key, t) ==
  IF ~CacheHas(cache, key) THEN <<cache, FALSE, NoResult>>
  ELSE <<cache, TRUE, cache[CacheIndex(cache, key)].value>>

\* A variant that removes the entry it returns.
cacheGetAndDelete(cache, key, t) ==
  IF ~CacheHas(cache, key) THEN <<cache, FALSE, NoResult>>
  ELSE LET hit == cache[CacheIndex(cache, key)]
       IN  <<CacheDelete(cache, key), t <= hit.expiresAt,
             IF t > hit.expiresAt THEN NoResult ELSE hit.value>>

cacheGet(cache, key, t) ==
  IF ~CacheHas(cache, key) THEN <<cache, FALSE, NoResult>>
  ELSE LET hit == cache[CacheIndex(cache, key)]
       IN  IF t > hit.expiresAt THEN <<CacheDelete(cache, key), FALSE, NoResult>>
           ELSE <<cache, TRUE, hit.value>>

\* A variant that deletes every expired entry.
PurgeAllExpired(cache, t) == SelectSeq(cache, LAMBDA en : ~(t > en.expiresAt))

\* The purge loop of cacheSet, entered with at least CACHE_MAX entries:
\*   for (const [k, v] of CACHE.entries()) {
\*     if (now > v.expiresAt) CACHE.delete(k);
\*     if (CACHE.size < CACHE_MAX) break; }
\* It deletes expired entries in insertion order and stops after the
\* deletion that brings the size below CACHE_MAX, so it deletes the first
\* Len(cache) - CACHE_MAX + 1 expired entries, or all of them if fewer.
PurgeExpired(cache, t) ==
  LET places == [k \in 1..Len(cache) |-> k]
      expired == SelectSeq(places, LAMBDA k : t > cache[k].expiresAt)
      wanted == Len(cache) - CACHE_MAX + 1
      deleted == {expired[j] : j \in 1..(IF Len(expired) < wanted THEN Len(expired) ELSE wanted)}
      kept == SelectSeq(places, LAMBDA k : k \notin deleted)
  IN  [j \in 1..Len(kept) |-> cache[kept[j]]]

\* Map.prototype.set: an existing key keeps its place in the order.
CachePut(cache, key, value, expiresAt) ==
  IF CacheHas(cache, key)
  THEN [cache EXCEPT ![CacheIndex(cache, key)] = CacheEntry(key, value, expiresAt)]
  ELSE Append(cache, CacheEntry(key, value, expiresAt))

\* A variant that leaves the entry of a key that is in the map as it is.
cacheSetIfAbsent(cache, key, value, t) ==
  IF CacheHas(cache, key) THEN cache
  ELSE CachePut(cache, key, value, t + CACHE_TTL_MS)

\* A variant that deletes expired entries only.
cacheSetPurgeOnly(cache, key, value, t) ==
  CachePut(IF Len(cache) >= CACHE_MAX THEN PurgeExpired(cache, t) ELSE cache,
           key, value, t + CACHE_TTL_MS)

cacheSet(cache, key, value, t) ==
  LET purged == IF Len(cache) >= CACHE_MAX THEN PurgeExpired(cache, t) ELSE cache
      evicted == IF Len(cache) >= CACHE_MAX /\ Len(purged) >= CACHE_MAX
                 THEN Tail(purged) ELSE purged
  IN  CachePut(evicted, key, value, t + CACHE_TTL_MS)

(***************************************************************************)
(* State.                                                                  *)
(***************************************************************************)
VARIABLES
  flow,      \* which variant of the handler runs
  pc,        \* "start", "call", "respond", "done" of the request; "idle"
  req,       \* the request: idea, file, apiKey, artStyle
  m,         \* index into modelFallbacks of the model being tried
  i,         \* index of the attempt loop of generateWithRetry (0-based)
  lastErr,   \* lastErr of the fallback loop
  response,  \* the provider response text once a call succeeded
  gotResponse, \* whether response was assigned
  calls,     \* history: every generateContent call of the request, in order
  reply,     \* the HTTP response of the request
  CACHE,     \* the process-wide cache map
  now,       \* Date.now()
  hPc,       \* normalizer harness: "input" or "output"
  hRaw,      \* normalizer harness: the raw value
  hStyle,    \* normalizer harness: the artStyle argument
  hResult,   \* normalizer harness: what normalizeOutput returned
  hAgain,    \* normalizer harness: what normalizing hResult again returned
  cPuts,     \* cache harness: how many times cacheSet was called
  cKeys,     \* cache harness: how many distinct fingerprints were put
  cLatest,   \* cache harness: the latest cacheSet of the oldest fingerprints
  cLast,     \* cache harness: the fingerprint of the last cacheSet
  cOnlyFresh, \* cache harness: only cacheSet of new keys changed the map so far
  pPc,       \* function harness: "input" or "output"; "idle"
  pIn,       \* function harness: the arguments
  pOut,      \* function harness: what the function returned
  rPc,       \* concurrent requests: "start", "waiting", "hit", "done" of each
  rOutcome,  \* concurrent requests: how the provider phase of each ended
  rReply,    \* concurrent requests: the HTTP response of each
  rWrites    \* concurrent requests: history of the cacheSet calls, in order

reqVars == <<pc, req, m, i, lastErr, response, gotResponse, calls, reply, CACHE, now>>

cacheVars == <<cPuts, cKeys, cLatest, cLast, cOnlyFresh>>

harnessVars == <<hPc, hRaw, hStyle, hResult, hAgain, cacheVars>>

probeVars == <<pPc, pIn, pOut>>

raceVars == <<rPc, rOutcome, rReply, rWrites>>

vars == <<flow, reqVars, harnessVars, probeVars, raceVars>>

(***************************************************************************)
(* Bounds of the model.                                                    *)
(***************************************************************************)
\* How many times the clock may advance during a request.
MaxTicks == 1

\* The most tokens a sampled prompt text is made of.
MaxTokens == 2

\* The most terms a sampled raw negative text is made of.
MaxNegTerms == 2

(***************************************************************************)
(* The request handler (POST).                                             *)
(***************************************************************************)
StartTime == CACHE_TTL_MS

\* By how much one Tick advances the clock: enough to pass an expiry.
TickMs == CACHE_TTL_MS + 1

Call(model, attempt, delay, outcome) ==
  [model |-> model, attempt |-> attempt, delay |-> delay, outcome |-> outcome]

\* The characters of the words the model names request values by.
Spell(word) ==
  CASE word = "analyze:v1" -> <<"a","n","a","l","y","z","e",":","v","1">>
    [] word = "analyze:v2" -> <<"a","n","a","l","y","z","e",":","v","2">>
    [] word = "recreate" -> <<"r","e","c","r","e","a","t","e">>
    [] word = "generic" -> <<"g","e","n","e","r","i","c">>
    [] word = "none" -> <<"n","o","n","e">>
    [] word = "neon" -> <<"n","e","o","n">>
    [] word = "constructor" -> <<"c","o","n","s","t","r","u","c","t","o","r">>
    [] word = "image/png" -> <<"i","m","a","g","e","/","p","n","g">>
    [] word = "h1" -> <<"h","1">>

\* [version, mode, target, artStyle, idea, mimeType, imgHash].join("|")
cacheKeyOf(version, mode, target, artStyle, idea, mimeType, imgHash) ==
  version \o <<"|">> \o mode \o <<"|">> \o target \o <<"|">> \o artStyle
    \o <<"|">> \o idea \o <<"|">> \o mimeType \o <<"|">> \o imgHash

\* The version prefix of the key: the legacy handler writes "analyze:v1".
KeyVersion(f) == Spell(IF f = "legacy" THEN "analyze:v1" ELSE "analyze:v2")

\* The cache key of the image flow, for a request of the handler; idea is
\* String(form.get("idea") ?? "").trim().
cacheKey(f, r) ==
  cacheKeyOf(KeyVersion(f), Spell(r.mode), Spell(r.target), Spell(r.artStyle),
             Trim(r.idea.s), Spell(r.mimeType), Spell(r.imgHash))

\* The artStyle values of the requests: a key of the tables and an unknown one.
RequestStyles == {"none", "neon", "constructor"}

\* The requests the model sends.  idea is a JSON value in the text flow and
\* a form string in the image flow; file tells whether form.get("image") is
\* a File.
Requests(f) ==
  [idea : IF f = "enhance"
          THEN {Undefined, Str(<<>>), NonString("number"), Str(<<"a">>)}
          ELSE {Str(<<>>)},
   file : IF f = "enhance" THEN {FALSE} ELSE BOOLEAN,
   apiKey : BOOLEAN,
   mode : {"recreate"},
   target : {"generic"},
   artStyle : RequestStyles,
   mimeType : {"image/png"},
   imgHash : {"h1"}]

\* normalizeOutput(JSON.parse(txt || "{}"), artStyle) for every provider
\* text and style of the model, tabulated so that each is computed once.
\* The entry of a text that does not parse is never read.
NormalizedData ==
  [f \in Flows, st \in RequestStyles, text \in ProviderTexts |->
     LET parsed == JSON_parse(OrElse(text, TXT_emptyObject))
     IN  IF parsed.ok THEN normalizeOutput(f, parsed.value, st) ELSE Thrown]

\* The caches a request may find: empty, or holding the entry of an earlier
\* identical request that is still valid or has expired.  A request whose
\* normalization throws never stores an entry.
InitialCaches(f, r) ==
  IF f = "enhance" \/ NormalizedData[f, r.artStyle, <<>>].threw THEN {<<>>}
  ELSE {<<>>} \cup
       {<<CacheEntry(cacheKey(f, r), NormalizedData[f, r.artStyle, <<>>], expiresAt)>> :
          expiresAt \in {StartTime, StartTime - 1}}

CacheHarnessIdle ==
  /\ cPuts = 0
  /\ cKeys = 0
  /\ cLatest = <<>>
  /\ cLast = 0
  /\ cOnlyFresh = TRUE

ProbeIdle ==
  /\ pPc = "idle"
  /\ pIn = <<>>
  /\ pOut = <<>>

RaceIdle ==
  /\ rPc = <<>>
  /\ rOutcome = <<>>
  /\ rReply = <<>>
  /\ rWrites = <<>>

HarnessIdle ==
  /\ hPc = "idle"
  /\ hRaw = RawOfType("undefined")
  /\ hStyle = "none"
  /\ hResult = NoResult
  /\ hAgain = NoResult
  /\ CacheHarnessIdle

Init ==
  /\ flow \in Flows
  /\ pc = "start"
  /\ req \in Requests(flow)
  /\ m = 1
  /\ i = 0
  /\ lastErr = NoError
  /\ response = <<>>
  /\ gotResponse = FALSE
  /\ calls = <<>>
  /\ reply = NoResponseYet
  /\ CACHE \in InitialCaches(flow, req)
  /\ now = StartTime
  /\ HarnessIdle
  /\ ProbeIdle
  /\ RaceIdle

\* A test of idea that accepts whatever is not undefined.
IdeaUndefined(idea) == idea.t = "undefined"

\* !idea || typeof idea !== "string"
IdeaMissing(idea) == idea.t # "string" \/ idea.s = <<>>

\* The checks before the first provider call.  The text flow tests idea and
\* then the API key; the image flow tests the API key, then the file, then
\* looks the request up in the cache.
Receive ==
  /\ pc = "start"
  /\ UNCHANGED <<raceVars, probeVars, flow, req, m, i, lastErr, response, gotResponse, calls, now,
                 harnessVars>>
  /\ IF flow = "enhance"
     THEN /\ UNCHANGED CACHE
          /\ IF IdeaMissing(req.idea)
             THEN /\ reply' = Response(400, "Missing 'idea' string", <<>>, NoResult)
                  /\ pc' = "done"
             ELSE IF ~req.apiKey
             THEN /\ reply' = Response(500, "Missing GEMINI_API_KEY in .env.local",
                                       <<>>, NoResult)
                  /\ pc' = "done"
             ELSE /\ reply' = reply
                  /\ pc' = "call"
     ELSE IF ~req.apiKey
     THEN /\ reply' = Response(500, "Missing GEMINI_API_KEY in .env.local", <<>>, NoResult)
          /\ pc' = "done"
          /\ UNCHANGED CACHE
     ELSE IF ~req.file
     THEN /\ reply' = Response(400, "Missing 'image' file", <<>>, NoResult)
          /\ pc' = "done"
          /\ UNCHANGED CACHE
     ELSE LET got == cacheGet(CACHE, cacheKey(flow, req), now)
          IN  /\ CACHE' = got[1]
              /\ IF got[2]
                 THEN /\ reply' = Response(200, "", <<>>, got[3])
                      /\ pc' = "done"
                 ELSE /\ reply' = reply
                      /\ pc' = "call"

\* One iteration of the attempt loop whose generateOnce returns: the sleep
\* (when delays[i] > 0), the call, and the break out of the fallback loop.
\* The sleep lasts delays[i] plus a random jitter; the call record keeps
\* delays[i], which is 0 exactly when the code does not sleep at all.
CallSucceeds ==
  /\ pc = "call"
  /\ \E text \in ProviderTexts :
       /\ calls' = Append(calls, Call(modelFallbacks[m], i + 1, delays(flow)[i + 1], "ok"))
       /\ response' = text
  /\ gotResponse' = TRUE
  /\ pc' = "respond"
  /\ UNCHANGED <<raceVars, probeVars, flow, req, m, i, lastErr, reply, CACHE, now, harnessVars>>

\* One iteration of the attempt loop whose generateOnce throws e, with all
\* the catch blocks the error passes through: the attempt loop goes on, or
\* generateWithRetry throws (at once, or after its last attempt) and the
\* fallback loop records the error and moves to the next model, ends, or
\* rethrows to the handler's catch block, which answers.
CallFails ==
  /\ pc = "call"
  /\ \E e \in ProviderErrors :
       LET retry == RetryDecision(e) = "retry" /\ i + 1 < Len(delays(flow))
       IN  /\ calls' = Append(calls, Call(modelFallbacks[m], i + 1, delays(flow)[i + 1], e.name))
           /\ IF retry
              THEN /\ i' = i + 1
                   /\ UNCHANGED <<m, lastErr, reply, pc>>
              ELSE /\ lastErr' = e
                   /\ IF FallbackDecision(e) = "continue"
                      THEN /\ reply' = reply
                           /\ IF m < Len(modelFallbacks)
                              THEN /\ m' = m + 1
                                   /\ i' = 0
                                   /\ pc' = pc
                              ELSE /\ pc' = "respond"
                                   /\ UNCHANGED <<m, i>>
                      ELSE /\ reply' = CatchResponse(flow, e)
                           /\ pc' = "done"
                           /\ UNCHANGED <<m, i>>
  /\ UNCHANGED <<raceVars, probeVars, flow, req, response, gotResponse, CACHE, now, harnessVars>>

\* A variant that stores the data before it looks at it.
AnswerStoreFirst(data) ==
  /\ CACHE' = cacheSet(CACHE, cacheKey(flow, req), data, now)
  /\ reply' = IF data.threw THEN CatchResponse(flow, ErrorThrown(data))
              ELSE Response(200, "", <<>>, data)

\* The end of the try block once the response text has parsed: data is
\* what normalizeOutput returned or that it threw; the image flow stores the
\* data in the cache before it answers.
Answer(data) ==
  IF data.threw
  THEN /\ reply' = CatchResponse(flow, ErrorThrown(data))
       /\ UNCHANGED CACHE
  ELSE /\ reply' = Response(200, "", <<>>, data)
       /\ CACHE' = IF flow = "enhance" THEN CACHE
                   ELSE cacheSet(CACHE, cacheKey(flow, req), data, now)

\* After the fallback loop: the answer for an exhausted list, or the parse
\* of the response text, its normalization, the cache store and the answer.
Respond ==
  /\ pc = "respond"
  /\ pc' = "done"
  /\ UNCHANGED <<raceVars, probeVars, flow, req, m, i, lastErr, response, gotResponse, calls, now,
                 harnessVars>>
  /\ IF ~gotResponse
     THEN /\ reply' = ExhaustedResponse(lastErr)
          /\ UNCHANGED CACHE
     ELSE IF ~JSON_parse(OrElse(response, TXT_emptyObject)).ok
     THEN /\ reply' = Response(502, "Model returned non-JSON output", response, NoResult)
          /\ UNCHANGED CACHE
     ELSE Answer(NormalizedData[flow, req.artStyle, response])

\* Time passes while the request awaits the provider.  The clock is read by
\* cacheGet (in Receive, where the age of the entry found is drawn in Init)
\* and by cacheSet (in Respond), so it is advanced just before Respond; the
\* text flow has no cache and never reads it.
Tick ==
  /\ pc = "respond"
  /\ flow # "enhance"
  /\ now < StartTime + MaxTicks * TickMs
  /\ now' = now + TickMs
  /\ UNCHANGED <<raceVars, probeVars, flow, pc, req, m, i, lastErr, response, gotResponse, calls, reply,
                 CACHE, harnessVars>>

Next == Receive \/ CallSucceeds \/ CallFails \/ Respond \/ Tick

Spec == Init /\ [][Next]_vars

\* The request under the scheduling the runtime gives it: the handler runs
\* on to its next await whenever it can (Receive, Respond), and a provider
\* call that was made returns or throws (the sleep before it is finite).
\* Nothing obliges the clock to advance.  The requests are those of the two
\* routes: the image flow with a known style, where a response is parsed,
\* normalized and cached, and the text flow with a style name that makes
\* normalization throw, where the catch block answers.  The loops of the
\* two routes are the same code.
InitFair ==
  /\ Init
  /\ flow # "legacy"
  /\ req.artStyle = IF flow = "enhance" THEN "constructor" ELSE "none"

SpecFair ==
  /\ InitFair
  /\ [][Next]_vars
  /\ WF_vars(Receive)
  /\ WF_vars(CallSucceeds \/ CallFails)
  /\ WF_vars(Respond)

(***************************************************************************)
(* The normalizer on its own: the inputs are drawn in InitNorm and         *)
(* Normalize applies normalizeOutput to them.                              *)
(***************************************************************************)
FLAG_16_9 == <<"-", "-", "a", "r", " ", "1", "6", ":", "9">>

TextTokens == {<<"a">>, <<" ">>, FLAG_16_9}

\* Every concatenation of at most n tokens.
TextsOf(n) ==
  LET f[k \in 0..n] ==
        IF k = 0 THEN {<<>>}
        ELSE f[k - 1] \cup {t \o tok : t \in f[k - 1], tok \in TextTokens}
  IN  f[n]

FieldValues ==
  {Undefined, NonString("number")} \cup {Str(t) : t \in TextsOf(MaxTokens)}

ExtremeValues ==
  {Undefined,
   Str(<<"b", " ", "-", "-", "A", "R", "4", " ", ":", "\n", "3", "-", "-", "a", "r",
         " ", "1", ":", "1">>),
   Str(<<"4", ":", "3", " ", "c">>),
   Str(<<"-", "-", "a", "r", " ", "1", "-", "-", "a", "r", " ", "2", ":", "3", ":", "4">>)}

NegTerms ==
  {<<"p", "h", "o", "t", "o", "r", "e", "a", "l", "i", "s", "t", "i", "c">>,
   <<"T", "e", "x", "t">>,
   <<"c", "o", "n", "t", "e", "x", "t">>,
   <<"l", "o", "w", " ", "q", "u", "a", "l", "i", "t", "y">>}

\* Every list of at most n terms, joined with ", ".
NegTextsOf(n) ==
  LET f[k \in 0..n] ==
        IF k = 0 THEN {<<>>}
        ELSE f[k - 1] \cup {IF t = <<>> THEN term ELSE t \o <<",", " ">> \o term :
                               t \in f[k - 1], term \in NegTerms}
  IN  f[n]

\* A raw negative is missing, not a string, a short list, or a text that
\* already holds every phrase of the "none" list.
NegativeValues ==
  {Undefined, NonString("boolean"), Str(NEG_none)}
    \cup {Str(t) : t \in NegTextsOf(MaxNegTerms)}

ParamValues ==
  {NoParams,
   ParamsOfType("string", <<"w", "a", "r", "m">>),
   ParamsOfType("array", <<>>),
   ParamsOfType("number", <<>>),
   ParamsOfType("null", <<>>),
   ParamsObject(Undefined, Undefined, Undefined, Undefined),
   ParamsObject(Str(<<"1", ":", "1">>), Str(<<"2", ":", "1">>), Str(<<"n">>), Str(<<"o">>)),
   ParamsObject(NonString("number"), Str(<<"2", ":", "1">>), NonString("null"), Str(<<"o">>)),
   ParamsObject(Str(<<>>), Undefined, Str(<<>>), Undefined),
   ParamsObject(Str(<<>>), Str(<<"2", ":", "1">>), Str(<<>>), Str(<<"o">>)),
   ParamsOfType("string", <<>>)}

HarnessInput(r, style) == [raw |-> r, style |-> style]

HarnessInputs ==
  {HarnessInput(RawObject(c, d, x, Undefined, NoParams), "none") :
     c \in FieldValues, d \in FieldValues, x \in ExtremeValues}
  \cup
  {HarnessInput(RawObject(Str(<<"a">>), Undefined, Undefined, n, NoParams), st) :
     n \in NegativeValues, st \in StyleKeys \cup {"neon"}}
  \cup
  {HarnessInput(RawObject(c, Undefined, Undefined, Undefined, p), "none") :
     c \in {Undefined, Str(<<"a", " ", "3", ":", "2">>)}, p \in ParamValues}
  \cup
  {HarnessInput(RawOfType(t), "none") :
     t \in {"null", "array", "string", "number", "boolean"}}

RequestIdle ==
  /\ pc = "idle"
  /\ req = [idea |-> Undefined, file |-> FALSE, apiKey |-> FALSE, mode |-> "recreate",
            target |-> "generic", artStyle |-> "none", mimeType |-> "image/png",
            imgHash |-> "h1"]
  /\ m = 1
  /\ i = 0
  /\ lastErr = NoError
  /\ response = <<>>
  /\ gotResponse = FALSE
  /\ calls = <<>>
  /\ reply = NoResponseYet
  /\ CACHE = <<>>
  /\ now = StartTime

InitNorm ==
  /\ flow \in Flows
  /\ hPc = "input"
  /\ \E inp \in HarnessInputs :
       /\ hRaw = inp.raw
       /\ hStyle = inp.style
  /\ hResult = NoResult
  /\ hAgain = NoResult
  /\ CacheHarnessIdle
  /\ RequestIdle
  /\ ProbeIdle
  /\ RaceIdle

Normalize ==
  /\ hPc = "input"
  /\ hResult' = normalizeOutput(flow, hRaw, hStyle)
  /\ hPc' = "output"
  /\ UNCHANGED <<raceVars, probeVars, flow, hRaw, hStyle, hAgain, cacheVars, reqVars>>

\* The value JSON.parse yields for the JSON text of a result: the four
\* strings, and a params object holding the keys that are set.
AsRaw(res) ==
  RawObject(Str(res.clean), Str(res.detailed), Str(res.extreme), Str(res.negative),
            ParamsObject(res.params.aspectRatio, Undefined, res.params.notes, Undefined))

\* A result that went out as JSON is normalized again with the same style.
Renormalize ==
  /\ hPc = "output"
  /\ ~hResult.threw
  /\ hAgain' = normalizeOutput(flow, AsRaw(hResult), hStyle)
  /\ hPc' = "again"
  /\ UNCHANGED <<raceVars, probeVars, flow, hRaw, hStyle, hResult, cacheVars, reqVars>>

NextNorm == Normalize \/ Renormalize

SpecNorm == InitNorm /\ [][NextNorm]_vars

(***************************************************************************)
(* The cache on its own.  cacheSet and cacheGet are called on the module's *)
(* CACHE with fingerprints 1, 2, 3, ... in place of the key strings and    *)
(* the number of the put as the value stored, while the clock advances.    *)
(* The cache fills one new fingerprint at a time; repeated puts, lookups   *)
(* and clock steps are taken once it is full.                              *)
(***************************************************************************)
\* How many new fingerprints are put beyond CACHE_MAX.
MaxExtraKeys == 2

\* How many puts of a fingerprint that was put before.
MaxRePuts == 1

\* The fingerprints that are looked up and put again: the two oldest.
Probed == {1, 2}

\* What the harness remembers of the latest put of a probed fingerprint.
LatestPut(value, at) == [value |-> value, at |-> at, evicted |-> FALSE]

\* The map holds CACHE_MAX entries, or one fewer.
Full == Len(CACHE) >= CACHE_MAX - 1

\* cLatest after a put that turned the map from before into after: the
\* probed fingerprints that left the map are marked.
MarkEvicted(latest, before, after) ==
  [k \in 1..Len(latest) |->
     IF CacheHas(before, k) /\ ~CacheHas(after, k)
     THEN [latest[k] EXCEPT !.evicted = TRUE] ELSE latest[k]]

InitCache ==
  /\ flow = "analyze"
  /\ RequestIdle
  /\ HarnessIdle
  /\ ProbeIdle
  /\ RaceIdle

\* cacheSet(key, value) for a fingerprint never put before.
PutFresh ==
  /\ pc = "idle" /\ hPc = "idle"
  /\ cKeys < CACHE_MAX + MaxExtraKeys
  /\ LET key == cKeys + 1
         value == cPuts + 1
         after == cacheSet(CACHE, key, value, now)
         marked == MarkEvicted(cLatest, CACHE, after)
     IN  /\ CACHE' = after
         /\ cLatest' = IF key \in Probed THEN Append(marked, LatestPut(value, now))
                        ELSE marked
         /\ cLast' = key
  /\ cPuts' = cPuts + 1
  /\ cKeys' = cKeys + 1
  /\ UNCHANGED <<raceVars, probeVars, flow, pc, req, m, i, lastErr, response, gotResponse, calls, reply, now,
                 hPc, hRaw, hStyle, hResult, hAgain, cOnlyFresh>>

\* cacheSet(key, value) for a fingerprint that was put before.
PutAgain ==
  /\ pc = "idle" /\ hPc = "idle"
  /\ Full
  /\ cPuts - cKeys < MaxRePuts
  /\ \E key \in Probed \cap (1..cKeys) :
       LET value == cPuts + 1
           after == cacheSet(CACHE, key, value, now)
       IN  /\ CACHE' = after
           /\ cLatest' = [MarkEvicted(cLatest, CACHE, after) EXCEPT
                            ![key] = LatestPut(value, now)]
           /\ cLast' = key
  /\ cPuts' = cPuts + 1
  /\ cOnlyFresh' = FALSE
  /\ UNCHANGED <<raceVars, probeVars, flow, pc, req, m, i, lastErr, response, gotResponse, calls, reply, now,
                 hPc, hRaw, hStyle, hResult, hAgain, cKeys>>

\* cacheGet(key) for a probed fingerprint or one never put: what it leaves
\* of the map.
Get ==
  /\ pc = "idle" /\ hPc = "idle"
  /\ Full
  /\ \E key \in Probed \cup {cKeys + 1} :
       CACHE' = cacheGet(CACHE, key, now)[1]
  /\ cOnlyFresh' = (cOnlyFresh /\ CACHE' = CACHE)
  /\ UNCHANGED <<raceVars, probeVars, flow, pc, req, m, i, lastErr, response, gotResponse, calls, reply, now,
                 hPc, hRaw, hStyle, hResult, hAgain, cPuts, cKeys, cLatest, cLast>>

\* Date.now() advances between two calls: from a time at which entries
\* were put to their expiry, which does not expire them, and from there by
\* one millisecond, which does.
Elapse ==
  /\ pc = "idle" /\ hPc = "idle"
  /\ Full
  /\ LET d == IF (now - StartTime) % TickMs = 0 THEN CACHE_TTL_MS ELSE 1
     IN  /\ now + d <= StartTime + MaxTicks * TickMs
         /\ now' = now + d
  /\ UNCHANGED <<raceVars, probeVars, flow, pc, req, m, i, lastErr, response, gotResponse, calls, reply,
                 CACHE, harnessVars>>

NextCache == PutFresh \/ PutAgain \/ Get \/ Elapse

SpecCache == InitCache /\ [][NextCache]_vars

(***************************************************************************)
(* Concurrent requests of the image flow with one fingerprint.  A handler  *)
(* runs without interruption between two awaits: the lookup happens in one *)
(* step, the provider phase (generateWithRetry under the fallback loop) is *)
(* awaited and touches no shared state, and what follows it, from the test *)
(* of response to the return, is one step again.  The requests share CACHE *)
(* and the clock.                                                          *)
(***************************************************************************)
\* How many requests run concurrently.
MaxRacers == 2

Racers == 1..MaxRacers

\* The key of the n-th entry other requests left in the map.
OtherKey(n) ==
  <<"k", Digits[(n \div 100) + 1], Digits[((n \div 10) % 10) + 1], Digits[(n % 10) + 1]>>

OtherEntries(count) ==
  [n \in 1..count |-> CacheEntry(OtherKey(n), NoResult, StartTime)]

\* The maps the requests may find: empty, holding an expired entry of
\* their fingerprint, one entry below capacity, or at capacity.
RaceCaches(f, r) ==
  {<<>>,
   <<CacheEntry(cacheKey(f, r), NormalizedData[f, r.artStyle, <<>>], StartTime - 1)>>,
   OtherEntries(CACHE_MAX - 1),
   OtherEntries(CACHE_MAX)}

NoOutcome == [kind |-> "none", text |-> <<>>, err |-> NoError]

TextOutcome(text) == [kind |-> "text", text |-> text, err |-> NoError]

ErrorOutcome(e) == [kind |-> "error", text |-> <<>>, err |-> e]

CacheWrite(who, value, at, waiting) ==
  [who |-> who, value |-> value, at |-> at, waiting |-> waiting]

InitRace ==
  /\ flow \in {"analyze", "legacy"}
  /\ pc = "idle"
  /\ req \in {r \in Requests(flow) : r.file /\ r.apiKey /\ r.artStyle = "none"}
  /\ m = 1
  /\ i = 0
  /\ lastErr = NoError
  /\ response = <<>>
  /\ gotResponse = FALSE
  /\ calls = <<>>
  /\ reply = NoResponseYet
  /\ CACHE \in RaceCaches(flow, req)
  /\ now = StartTime
  /\ HarnessIdle
  /\ ProbeIdle
  /\ rPc = [k \in Racers |-> "start"]
  /\ rOutcome = [k \in Racers |-> NoOutcome]
  /\ rReply = [k \in Racers |-> NoResponseYet]
  /\ rWrites = <<>>

RaceUnchanged ==
  UNCHANGED <<flow, pc, req, m, i, lastErr, response, gotResponse, calls, reply,
              harnessVars, probeVars>>

\* const cached = cacheGet(cacheKey); if (cached) return NextResponse.json(cached);
\* The requests are numbered in the order of their lookups.
RaceLookup(k) ==
  /\ rPc[k] = "start"
  /\ \A o \in 1..(k - 1) : rPc[o] # "start"
  /\ LET got == cacheGet(CACHE, cacheKey(flow, req), now)
     IN  /\ CACHE' = got[1]
         /\ IF got[2]
            THEN /\ rPc' = [rPc EXCEPT ![k] = "hit"]
                 /\ rReply' = [rReply EXCEPT ![k] = Response(200, "", <<>>, got[3])]
            ELSE /\ rPc' = [rPc EXCEPT ![k] = "waiting"]
                 /\ UNCHANGED rReply
  /\ UNCHANGED <<now, rOutcome, rWrites>>
  /\ RaceUnchanged

\* The end of the try block of request k once its response text has
\* parsed: data is what normalizeOutput returned or that it threw.
RaceStores(k, data) ==
  IF data.threw
  THEN /\ rReply' = [rReply EXCEPT ![k] = CatchResponse(flow, ErrorThrown(data))]
       /\ UNCHANGED <<CACHE, rWrites>>
  ELSE /\ CACHE' = cacheSet(CACHE, cacheKey(flow, req), data, now)
       /\ rReply' = [rReply EXCEPT ![k] = Response(200, "", <<>>, data)]
       /\ rWrites' = Append(rWrites,
                            CacheWrite(k, data, now,
                                       {o \in Racers : rPc[o] = "waiting"} \ {k}))

\* The provider phase ended with a response: the text is parsed and
\* normalized, the data stored and returned.
RaceAnswers(k) ==
  /\ rPc[k] = "waiting"
  /\ rPc' = [rPc EXCEPT ![k] = "done"]
  /\ \E text \in ProviderTexts :
       /\ rOutcome' = [rOutcome EXCEPT ![k] = TextOutcome(text)]
       /\ IF ~JSON_parse(OrElse(text, TXT_emptyObject)).ok
          THEN /\ rReply' = [rReply EXCEPT ![k] =
                               Response(502, "Model returned non-JSON output", text, NoResult)]
               /\ UNCHANGED <<CACHE, rWrites>>
          ELSE RaceStores(k, NormalizedData[flow, req.artStyle, text])
  /\ UNCHANGED now
  /\ RaceUnchanged

\* The provider phase ended without a response: the fallback loop ran out
\* of models, or rethrew the error to the handler's catch.
RaceFails(k) ==
  /\ rPc[k] = "waiting"
  /\ rPc' = [rPc EXCEPT ![k] = "done"]
  /\ \E e \in ProviderErrors :
       /\ rOutcome' = [rOutcome EXCEPT ![k] = ErrorOutcome(e)]
       /\ rReply' = [rReply EXCEPT ![k] =
                       IF FallbackDecision(e) = "continue" THEN ExhaustedResponse(e)
                       ELSE CatchResponse(flow, e)]
  /\ UNCHANGED <<CACHE, now, rWrites>>
  /\ RaceUnchanged

\* Time passes while requests are in flight.
RaceElapse ==
  /\ \E k \in Racers : rPc[k] \in {"start", "waiting"}
  /\ now < StartTime + MaxTicks * TickMs
  /\ now' = now + TickMs
  /\ UNCHANGED <<CACHE, raceVars>>
  /\ RaceUnchanged

NextRace ==
  \/ \E k \in Racers : RaceLookup(k)
  \/ \E k \in Racers : RaceAnswers(k)
  \/ \E k \in Racers : RaceFails(k)
  \/ RaceElapse

SpecRace == InitRace /\ [][NextRace]_vars

(***************************************************************************)
(* A harness for extractRetryAfterSeconds and the 429 responses: an error  *)
(* the provider threw last, and what the function and the two places that  *)
(* answer 429 make of it.                                                  *)
(***************************************************************************)
\* A decimal text of OverflowDigits integer digits.
OverflowingText == [k \in 1..OverflowDigits |-> IF k = 1 THEN "1" ELSE "0"]

\* The digit-and-dot texts of the sampled messages and delays.
NumTexts ==
  {<<"1", "2", ".", "3">>, <<"0">>, <<"0", ".", "0">>, <<".", "5">>, <<"2", ".">>,
   <<".">>, <<"1", ".", "2", ".", "3">>, <<"0", "0", "7">>, <<"4", "0">>,
   OverflowingText}

\* What stands between "retry in" and the number, and after the number.
PhraseGaps == {<<>>, <<" ">>, <<" ", "\t">>}

PhraseUnits == {<<"s">>, <<"S">>, <<" ", "s">>, <<"m">>}

\* The two spellings of the words of the phrase.
PhraseLeads == {S_retry_in, <<"R", "e", "t", "r", "y", " ", "I", "N">>}

\* The message of a quota error with the words "retry in", the gap, the
\* number and the unit in it.
RetryMessage(lead, gap, num, unit) ==
  S_429 \o <<" ">> \o lead \o gap \o num \o unit \o <<".">>

\* The error.details arrays of the sampled errors.
RetryDetails ==
  {<<>>,
   <<Detail(S_RetryInfo, Str(<<"4", "0", "s">>))>>,
   <<Detail(<<"H", "e", "l", "p">>, Undefined),
     Detail(<<"t", "y", "p", "e", ".", "g", "o", "o", "g", "l", "e", "a", "p", "i", "s",
              ".", "c", "o", "m", "/">> \o S_RetryInfo, Str(<<"0", ".", "5", "s">>))>>,
   <<Detail(S_RetryInfo, NonString("number"))>>,
   <<Detail(S_RetryInfo, Str(<<"s", "o", "o", "n">>))>>,
   <<Detail(S_RetryInfo, Str(<<"1", "m", "2", ".", "5", "S">>))>>,
   <<Detail(S_RetryInfo, Undefined), Detail(S_RetryInfo, Str(<<"9", "s">>))>>}

QuotaError(msg, details) ==
  [ProviderError("quota", msg, 429, S_RESOURCE_EXHAUSTED) EXCEPT !.details = details]

\* An error of the harness, with what its message was made of (worded
\* tells whether the message has the words "retry in" at all).
RetryInput(e, worded, gap, num, unit) ==
  [error |-> e, worded |-> worded, gap |-> gap, num |-> num, unit |-> unit]

RetryInputs ==
  {RetryInput(QuotaError(RetryMessage(lead, gap, num, unit), details), TRUE, gap, num, unit) :
     lead \in PhraseLeads, gap \in PhraseGaps, num \in NumTexts, unit \in PhraseUnits,
     details \in RetryDetails}
  \cup
  {RetryInput(QuotaError(S_429 \o <<" ">> \o S_quota, details), FALSE, <<>>, <<>>, <<>>) :
     details \in RetryDetails}

InitRetry ==
  /\ flow \in {"enhance", "analyze"}
  /\ RequestIdle
  /\ HarnessIdle
  /\ RaceIdle
  /\ pPc = "input"
  /\ pIn \in RetryInputs
  /\ pOut = <<>>

\* The error goes through extractRetryAfterSeconds, through the answer for
\* an exhausted fallback list and through the handler's catch block.
ExtractRetry ==
  /\ pPc = "input"
  /\ pOut' = [seconds |-> extractRetryAfterSeconds(pIn.error),
              exhausted |-> ExhaustedResponse(pIn.error),
              caught |-> CatchResponse(flow, pIn.error)]
  /\ pPc' = "output"
  /\ UNCHANGED <<flow, pIn>>
  /\ UNCHANGED <<reqVars, harnessVars, raceVars>>

NextRetry == ExtractRetry

SpecRetry == InitRetry /\ [][NextRetry]_vars

(***************************************************************************)
(* A harness for the cache key: two submitted forms, and the keys the      *)
(* image flow computes for them.                                           *)
(***************************************************************************)
\* The values a free-text form field takes in the harness.
KeyTexts == {<<"a">>, <<"a", "|", "a">>}

\* The form fields the key is made of, as the handler reads them; idea
\* is not trimmed yet.
KeyForms ==
  [mode : KeyTexts, target : KeyTexts, artStyle : {<<"a">>},
   idea : {<<"a">>, <<"a", " ">>}, mimeType : {<<"p">>},
   imgHash : {<<"0">>, <<"1">>}]

InitKey ==
  /\ flow \in {"analyze", "legacy"}
  /\ RequestIdle
  /\ HarnessIdle
  /\ pPc = "input"
  /\ pIn \in KeyForms \X KeyForms
  /\ pOut = <<>>
  /\ RaceIdle

\* The key of one form.
FormKey(f, form) ==
  cacheKeyOf(KeyVersion(f), form.mode, form.target, form.artStyle, Trim(form.idea),
             form.mimeType, form.imgHash)

\* Both forms go through the lines that compute the key.
ComputeKeys ==
  /\ pPc = "input"
  /\ pOut' = <<FormKey(flow, pIn[1]), FormKey(flow, pIn[2])>>
  /\ pPc' = "output"
  /\ UNCHANGED <<flow, pIn>>
  /\ UNCHANGED <<reqVars, harnessVars, raceVars>>

NextKey == ComputeKeys

SpecKey == InitKey /\ [][NextKey]_vars

(***************************************************************************)
(* Properties of the retry and fallback loops, stated over calls, the      *)
(* provider calls of the request in the order they were made.              *)
(***************************************************************************)
Failed(c) == c.outcome # "ok"

\* The names of the errors that isQuotaExceededError accepts.
QuotaNames == {e.name : e \in {x \in ProviderErrors : isQuotaExceededError(x)}}

\* The names of the errors that isOverloadedError accepts.
OverloadedNames == {e.name : e \in {x \in ProviderErrors : isOverloadedError(x)}}

QuotaFailed(c) == c.outcome \in QuotaNames

\* Failed with the overloaded condition and not with quota-exceeded.
OverloadedFailed(c) == c.outcome \in OverloadedNames \ QuotaNames

\* Failed with an error that is neither overloaded nor quota-exceeded.
OtherFailed(c) == Failed(c) /\ c.outcome \notin (OverloadedNames \cup QuotaNames)

\* The text of the error a failed call threw.
ErrorText(c) == ErrorNamed(c.outcome).msg

\* The fallback list as the specification gives it.
ListOrder == <<"gemini-2.5-flash-lite", "gemini-2.5-flash", "gemini-2.0-flash">>

PlaceOf(model) == CHOOSE k \in 1..Len(ListOrder) : ListOrder[k] = model

LastCall == calls[Len(calls)]

\* C1: when a call on model k fails with quota-exceeded, no later call is
\* made on model k, and the next call, if there is one, is attempt 1 on
\* model k+1 of the list, made with no backoff wait (delays[0] = 0).
C1_QuotaAdvances ==
  \A k \in 1..Len(calls) :
    QuotaFailed(calls[k]) =>
      /\ \A j \in (k + 1)..Len(calls) : calls[j].model # calls[k].model
      /\ k < Len(calls) =>
           /\ PlaceOf(calls[k + 1].model) = PlaceOf(calls[k].model) + 1
           /\ calls[k + 1].attempt = 1
           /\ calls[k + 1].delay = 0

\* A quota failure on a second attempt was followed by a call.
C1_Witness ==
  \E k \in 1..(Len(calls) - 1) : QuotaFailed(calls[k]) /\ calls[k].attempt > 1

\* C2: a call on a model that was already called in the request comes
\* directly after a call on that model that failed with overloaded and not
\* with quota-exceeded; no call follows a successful call.
C2_RetryOnlyAfterOverloaded ==
  \A k \in 2..Len(calls) :
    /\ (\E j \in 1..(k - 1) : calls[j].model = calls[k].model) =>
         /\ calls[k - 1].model = calls[k].model
         /\ OverloadedFailed(calls[k - 1])
    /\ Failed(calls[k - 1])

\* A model was retried, a later call succeeded and the request was answered.
C2_Witness ==
  /\ pc = "done"
  /\ Len(calls) >= 2
  /\ ~Failed(LastCall)
  /\ \E k \in 1..Len(calls) : calls[k].attempt > 1

\* C3: a step in which a call fails with an error that is neither
\* overloaded nor quota-exceeded answers the request with 500 and the error
\* text in detail and leaves the cache as it was; after such a call no
\* further call is made and the cache stays as it is.
C3_OtherErrorEnds ==
  [][/\ (calls' # calls /\ OtherFailed(calls'[Len(calls')])) =>
          /\ pc' = "done"
          /\ reply'.status = 500
          /\ reply'.detail = ErrorText(calls'[Len(calls')])
          /\ CACHE' = CACHE
     /\ (calls # <<>> /\ OtherFailed(LastCall)) =>
          /\ calls' = calls
          /\ CACHE' = CACHE]_vars

\* An unclassified error on the second model ended a request of the image flow.
C3_Witness ==
  /\ flow = "analyze"
  /\ Len(calls) >= 2
  /\ OtherFailed(LastCall)
  /\ LastCall.model = ListOrder[2]
  /\ reply.status = 500

\* Every model of the list has failed and the request is answered.
AllModelsFailed ==
  /\ pc = "done"
  /\ \A k \in 1..Len(ListOrder) :
       \E j \in 1..Len(calls) : calls[j].model = ListOrder[k]
  /\ \A j \in 1..Len(calls) : Failed(calls[j])

\* C4 as stated: when every model has failed the answer is 429 if the last
\* model's failure was quota-exceeded and 503 otherwise.
C4_AsStated ==
  AllModelsFailed =>
    reply.status = IF QuotaFailed(LastCall) THEN 429 ELSE 503

\* C4: when every model has failed the answer is 429 if the last model's
\* failure was quota-exceeded, 503 if it was overloaded and not
\* quota-exceeded, and 500 if it was neither, whatever the earlier errors.
C4_ExhaustedStatus ==
  AllModelsFailed =>
    reply.status = IF QuotaFailed(LastCall) THEN 429
                   ELSE IF OverloadedFailed(LastCall) THEN 503
                   ELSE 500

\* Every model failed; the first with overloaded, the last with quota.
C4_Witness ==
  /\ AllModelsFailed
  /\ OverloadedFailed(calls[1])
  /\ QuotaFailed(LastCall)
  /\ reply.status = 429

\* C5 as stated: the first call on a model comes directly after a call on
\* the model before it that failed with quota-exceeded.
C5_AsStated ==
  \A k \in 2..Len(calls) :
    calls[k].model # calls[k - 1].model => QuotaFailed(calls[k - 1])

\* C5: the first call on model k+1 comes directly after a call on model k
\* that failed with quota-exceeded, or that was the sixth attempt on model k
\* and failed with overloaded.
C5_FallbackTrigger ==
  \A k \in 2..Len(calls) :
    calls[k].model # calls[k - 1].model =>
      /\ PlaceOf(calls[k].model) = PlaceOf(calls[k - 1].model) + 1
      /\ \/ QuotaFailed(calls[k - 1])
         \/ OverloadedFailed(calls[k - 1]) /\ calls[k - 1].attempt = 6

\* The second model was called after six overloaded failures of the first.
C5_Witness ==
  /\ Len(calls) >= 7
  /\ OverloadedFailed(calls[6])
  /\ calls[6].model = ListOrder[1]
  /\ calls[7].model = ListOrder[2]

\* C6: the first call is on the first model of the list; each later call is
\* on the model of the call before it or on the next one of the list, and
\* comes after a failed call, so no model is called before every earlier
\* one has failed, none is returned to, and nothing follows a success.
C6_ListOrder ==
  /\ calls # <<>> => calls[1].model = ListOrder[1]
  /\ \A k \in 2..Len(calls) :
       /\ Failed(calls[k - 1])
       /\ \/ calls[k].model = calls[k - 1].model
          \/ PlaceOf(calls[k].model) = PlaceOf(calls[k - 1].model) + 1
  /\ \A j, k \in 1..Len(calls) :
       j < k => PlaceOf(calls[j].model) <= PlaceOf(calls[k].model)

\* The third model answered after the first two had failed.
C6_Witness ==
  /\ pc = "done"
  /\ calls # <<>>
  /\ ~Failed(LastCall)
  /\ LastCall.model = ListOrder[3]

CallsOn(model) == {k \in 1..Len(calls) : calls[k].model = model}

\* C7: each model receives at most 6 calls and the request makes at most 18.
C7_CallBudget ==
  /\ \A k \in 1..Len(ListOrder) : Cardinality(CallsOn(ListOrder[k])) <= 6
  /\ Len(calls) <= 18

\* All 18 calls were made.
C7_Witness ==
  /\ Len(calls) = 18
  /\ \A k \in 1..Len(ListOrder) : Cardinality(CallsOn(ListOrder[k])) = 6

(***************************************************************************)
(* Properties of normalizeOutput, stated over what Normalize returned.     *)
(***************************************************************************)
\* C8: normalizeOutput returns for every raw value and style; it never
\* throws.
C8_NeverThrows == hPc = "output" => ~hResult.threw

\* C9: the clean, detailed and extreme fields of the result are never empty.
C9_NeverEmpty ==
  (hPc = "output" /\ ~hResult.threw) =>
    /\ hResult.clean # <<>>
    /\ hResult.detailed # <<>>
    /\ hResult.extreme # <<>>

\* The comma-separated terms of a list, trimmed and in lower case.
TermsOf(text) ==
  LET parts == TrimmedParts(text)
  IN  [k \in 1..Len(parts) |-> ToLowerCase(parts[k])]

\* How many terms of the list are the phrase.
Occurrences(text, phrase) ==
  Cardinality({k \in 1..Len(TermsOf(text)) : TermsOf(text)[k] = phrase})

\* C10: every phrase of the style's negative list and of the baseline
\* denylist is a comma-separated term of the result's negative field exactly
\* once, compared in lower case.
C10_NegativeOnce ==
  (hPc = "output" /\ ~hResult.threw) =>
    \A list \in {STYLE_NEGATIVE(hStyle), BaselineNegative(flow)} :
      \A k \in 1..Len(TermsOf(list)) :
        Occurrences(hResult.negative, TermsOf(list)[k]) = 1

\* C11: normalizing a normalized result again with the same style returns
\* the same result, in particular the same negative string.
C11_Idempotent == hPc = "again" => hAgain = hResult

\* The text holds an aspect-ratio flag: "--ar" in any letter case, optional
\* whitespace, digits, ":" with optional whitespace around it, digits.
ContainsFlag(text) == \E pos \in 1..Len(text) : FlagCaptureAt(text, pos)[2] # 0

\* C12: none of the clean, detailed and extreme fields of a result contains
\* an aspect-ratio flag, whatever the raw texts were.
C12_NoFlagLeft ==
  (hPc = "output" /\ ~hResult.threw) =>
    /\ ~ContainsFlag(hResult.clean)
    /\ ~ContainsFlag(hResult.detailed)
    /\ ~ContainsFlag(hResult.extreme)

\* The aspect ratio the raw params carries: its aspectRatio property when
\* that is a string, else its aspect_ratio property when that is a string.
CarriedAspectRatio(p) ==
  IF p.t # "object" THEN <<>>
  ELSE IF p.aspectRatio.t = "string" THEN p.aspectRatio.s
  ELSE IF p.aspect_ratio.t = "string" THEN p.aspect_ratio.s
  ELSE <<>>

\* The first match scanning the raw extreme, then detailed, then clean text.
FirstRatioInTexts(raw) ==
  LET inExtreme == extractAspectRatio(asString(raw.extreme))
      inDetailed == extractAspectRatio(asString(raw.detailed))
      inClean == extractAspectRatio(asString(raw.clean))
  IN  IF inExtreme # <<>> THEN inExtreme
      ELSE IF inDetailed # <<>> THEN inDetailed
      ELSE inClean

\* C13: in the two routes, when the raw params carries a non-empty aspect
\* ratio the result's params.aspectRatio is that value; otherwise it is the
\* first match scanning extreme, then detailed, then clean, free of
\* whitespace, and is absent when no text matches.
C13_AspectRatioRecovery ==
  (hPc = "output" /\ flow # "legacy") =>
    LET carried == CarriedAspectRatio(hRaw.params)
        found == FirstRatioInTexts(hRaw)
        got == hResult.params.aspectRatio
    IN  IF carried # <<>> THEN got = Str(carried)
        ELSE IF found # <<>>
        THEN got = Str(found) /\ \A k \in 1..Len(found) : ~IsWs(found[k])
        ELSE got = Undefined

\* The raw params carries no aspect ratio, extreme and clean hold different
\* ratios, and the result has the one of extreme.
C13_Witness ==
  /\ hPc = "output"
  /\ flow = "enhance"
  /\ CarriedAspectRatio(hRaw.params) = <<>>
  /\ extractAspectRatio(asString(hRaw.extreme)) = <<"4", ":", "3">>
  /\ extractAspectRatio(asString(hRaw.clean)) = <<"1", "6", ":", "9">>
  /\ hResult.params.aspectRatio = Str(<<"4", ":", "3">>)

\* The raw field is missing, not a string, or the empty string.
MissingOrEmpty(v) == v.t # "string" \/ v.s = <<>>

\* C14: when raw.extreme is missing, non-string or empty the result's
\* extreme equals its detailed; when raw.detailed is, the result's detailed
\* equals its clean; when raw.clean is, the result's clean is the fixed
\* default sentence.
C14_FallbackChain ==
  (hPc = "output" /\ ~hResult.threw) =>
    /\ MissingOrEmpty(hRaw.extreme) => hResult.extreme = hResult.detailed
    /\ MissingOrEmpty(hRaw.detailed) => hResult.detailed = hResult.clean
    /\ MissingOrEmpty(hRaw.clean) => hResult.clean = DefaultClean(flow)

\* The notes the raw params object carries: its notes property when that is
\* a string, else its note property when that is a string.
CarriedNotes(p) ==
  IF p.t # "object" THEN <<>>
  ELSE IF p.notes.t = "string" THEN p.notes.s
  ELSE IF p.note.t = "string" THEN p.note.s
  ELSE <<>>

\* The value of a params key that is set only for a non-empty string.
KeyOf(chars) == IF chars # <<>> THEN Str(chars) ELSE Undefined

\* C15: in the two routes, when raw.params is a string the result's notes
\* is that string and aspectRatio comes from the texts alone; when it is a
\* non-array object aspectRatio is its aspectRatio or else aspect_ratio
\* string (the texts when there is none) and notes its notes or else note
\* string; for any other value notes is absent and aspectRatio comes from
\* the texts alone.
C15_ParamsCoercion ==
  (hPc = "output" /\ flow # "legacy") =>
    LET p == hRaw.params
        fromTexts == KeyOf(FirstRatioInTexts(hRaw))
        got == hResult.params
    IN  IF p.t = "string"
        THEN got.notes = Str(p.s) /\ got.aspectRatio = fromTexts
        ELSE IF p.t = "object"
        THEN /\ got.notes = KeyOf(CarriedNotes(p))
             /\ got.aspectRatio =
                  IF CarriedAspectRatio(p) # <<>> THEN Str(CarriedAspectRatio(p))
                  ELSE fromTexts
        ELSE got.notes = Undefined /\ got.aspectRatio = fromTexts

\* A params object whose aspectRatio and notes are not strings: the result
\* has the values of aspect_ratio and note, although a text holds a ratio.
C15_Witness ==
  /\ hPc = "output"
  /\ flow = "analyze"
  /\ hRaw.params.t = "object"
  /\ hRaw.params.aspectRatio.t = "number"
  /\ hRaw.params.notes.t = "null"
  /\ FirstRatioInTexts(hRaw) = <<"3", ":", "2">>
  /\ hResult.params = [aspectRatio |-> Str(<<"2", ":", "1">>), notes |-> Str(<<"o">>)]

(***************************************************************************)
(* Properties of the cache.                                                *)
(***************************************************************************)
\* C16: the cache never holds more than CACHE_MAX (200) entries, and after
\* CACHE_MAX + 1 puts of distinct fingerprints into the empty cache, with
\* no other call that changed the map, it holds exactly CACHE_MAX.
C16_AtMostMax ==
  /\ Len(CACHE) <= CACHE_MAX
  /\ (cOnlyFresh /\ cPuts = CACHE_MAX + 1) => Len(CACHE) = CACHE_MAX

C16_Witness ==
  /\ cOnlyFresh
  /\ cPuts = CACHE_MAX + 1
  /\ Len(CACHE) = CACHE_MAX
  /\ ~CacheHas(CACHE, 1)

\* What cacheGet(key) does now: <<the map afterwards, found, value>>.
Lookup(key) == cacheGet(CACHE, key, now)

EverPut(key) == key \in 1..Len(cLatest)

\* The time is within the time to live of the latest put of the fingerprint.
Live(key) == now <= cLatest[key].at + CACHE_TTL_MS

\* C17 as stated: a get returns the value of the latest put of the
\* fingerprint while the time is within the time to live of that put, and
\* returns absent and leaves no entry once the expiry has passed.
C17_AsStated ==
  \A key \in 1..Len(cLatest) :
    IF Live(key)
    THEN Lookup(key)[2] /\ Lookup(key)[3] = cLatest[key].value
    ELSE ~Lookup(key)[2] /\ ~CacheHas(Lookup(key)[1], key)

\* C17: a get returns the value of the latest put of the fingerprint while
\* the time is within the time to live of that put and no later put has
\* evicted the entry; it returns absent for an evicted or never put
\* fingerprint, and once the expiry has passed, when it also removes the
\* entry; it never returns an expired value, and it changes nothing else.
C17_GetLatest ==
  \A key \in Probed \cup {cKeys + 1} :
    LET got == Lookup(key)
    IN  IF ~EverPut(key) THEN ~got[2] /\ got[1] = CACHE
        ELSE /\ got[2] => (got[3] = cLatest[key].value /\ Live(key) /\ got[1] = CACHE)
             /\ (Live(key) /\ ~cLatest[key].evicted) => got[2]
             /\ cLatest[key].evicted => ~got[2]
             /\ ~Live(key) => (~got[2] /\ ~CacheHas(got[1], key))
             /\ ~got[2] => got[1] = CacheDelete(CACHE, key)

\* A lookup has removed the expired entry of fingerprint 1, which no put
\* had evicted, and a lookup of fingerprint 2 finds the value of its second
\* put at a time when the entry of its first put would have expired.
C17_Witness ==
  /\ Len(cLatest) = 2
  /\ ~CacheHas(CACHE, 1) /\ ~cLatest[1].evicted /\ ~Live(1)
  /\ Lookup(2)[2]
  /\ Lookup(2)[3] = cLatest[2].value
  /\ cLatest[2].value # 2
  /\ now > StartTime + CACHE_TTL_MS

\* A step that is a cacheSet.
PutStep == cPuts' = cPuts + 1

\* The place of the entry a put removes before it stores: none below
\* capacity; at capacity the first expired entry in insertion order, and
\* the first entry when none is expired.
Victim(cache, t) ==
  LET expired == {k \in 1..Len(cache) : t > cache[k].expiresAt}
  IN  IF Len(cache) < CACHE_MAX THEN 0
      ELSE IF expired = {} THEN 1
      ELSE CHOOSE k \in expired : \A j \in expired : k <= j

WithoutPlace(cache, place) ==
  [k \in 1..(IF place = 0 THEN Len(cache) ELSE Len(cache) - 1) |->
     IF place = 0 \/ k < place THEN cache[k] ELSE cache[k + 1]]

\* C18: a put below capacity removes nothing; a put at capacity removes
\* one entry before it stores, the first expired one in insertion order,
\* and when no entry is expired the earliest-inserted one; every other
\* entry stays as it is and where it is.
C18_PutEviction ==
  [][PutStep =>
       CACHE' = CachePut(WithoutPlace(CACHE, Victim(CACHE, now)), cLast', cPuts',
                         now + CACHE_TTL_MS)]_vars

\* A put on a full cache removed the expired entry of fingerprint 2 and
\* left the older, unexpired entry of fingerprint 1 in the first place.
C18_Witness ==
  /\ cLast = cKeys
  /\ cKeys = CACHE_MAX + 1
  /\ Len(CACHE) = CACHE_MAX
  /\ CACHE[1].key = 1
  /\ now <= CACHE[1].expiresAt
  /\ cLatest[2].evicted

(***************************************************************************)
(* Properties of the cache within a request of the image flow.             *)
(***************************************************************************)
\* The entry of the request's fingerprint, when the map has one.
OwnEntry == CACHE[CacheIndex(CACHE, cacheKey(flow, req))]

HasLiveEntry == CacheHas(CACHE, cacheKey(flow, req)) /\ now <= OwnEntry.expiresAt

\* The handler's answer to a cache hit: 200 with the stored result, no
\* provider call, the map as it was.
AnsweredFromCache ==
  /\ pc' = "done"
  /\ reply' = Response(200, "", <<>>, OwnEntry.value)
  /\ calls' = <<>>
  /\ CACHE' = CACHE

\* C19 as stated: an image-flow request (one that carries a file) whose
\* fingerprint has an unexpired entry is answered from the cache.
C19_AsStated ==
  [][(pc = "start" /\ pc' # pc /\ flow # "enhance" /\ req.file /\ HasLiveEntry)
       => AnsweredFromCache]_vars

\* C19: an image-flow request that finds the API key configured and carries
\* a file, and whose fingerprint has an unexpired entry, is answered 200
\* with exactly the stored result, makes no provider call and leaves the
\* map unchanged.
C19_CacheHit ==
  [][(pc = "start" /\ pc' # pc /\ flow # "enhance" /\ req.apiKey /\ req.file
        /\ HasLiveEntry)
       => AnsweredFromCache]_vars

C19_Witness ==
  /\ pc = "done"
  /\ flow = "analyze"
  /\ HasLiveEntry
  /\ reply = Response(200, "", <<>>, OwnEntry.value)
  /\ calls = <<>>

\* C20: the map changes only in two ways: the lookup of a request removes
\* the expired entry of its own fingerprint, and a request that got a
\* provider response and normalized it stores the result under its
\* fingerprint as it answers 200; a step that answers 400, 429, 500, 502 or
\* 503 leaves the map as it is.
C20_WrittenOnSuccessOnly ==
  [][/\ CACHE' # CACHE =>
          \/ /\ pc = "start"
             /\ CacheHas(CACHE, cacheKey(flow, req))
             /\ now > OwnEntry.expiresAt
             /\ CACHE' = CacheDelete(CACHE, cacheKey(flow, req))
          \/ /\ pc = "respond"
             /\ flow # "enhance"
             /\ gotResponse
             /\ reply'.status = 200
             /\ CacheHas(CACHE', cacheKey(flow, req))
             /\ CACHE'[CacheIndex(CACHE', cacheKey(flow, req))] =
                  CacheEntry(cacheKey(flow, req), reply'.data, now + CACHE_TTL_MS)
             /\ CacheDelete(CACHE', cacheKey(flow, req)) =
                  CacheDelete(CACHE, cacheKey(flow, req))
     /\ (reply' # reply /\ reply'.status \in {400, 429, 500, 502, 503}) =>
          CACHE' = CACHE]_vars

\* An image-flow request that called the provider ended with 502, and the
\* map holds no entry.
C20_Witness ==
  /\ pc = "done"
  /\ flow = "analyze"
  /\ reply.status = 502
  /\ calls # <<>>
  /\ CACHE = <<>>

(***************************************************************************)
(* C28: the cache key is injective on the request parameters: two          *)
(* image-flow requests that differ in mode, target, artStyle, trimmed      *)
(* idea, MIME type or image hash never get the same cache key.             *)
(***************************************************************************)
KeyFields(form) ==
  <<form.mode, form.target, form.artStyle, Trim(form.idea), form.mimeType, form.imgHash>>

C28_Injective ==
  (pPc = "output" /\ KeyFields(pIn[1]) # KeyFields(pIn[2])) => pOut[1] # pOut[2]

(***************************************************************************)
(* C21: for every interleaving of concurrent image-flow requests with one  *)
(* fingerprint that all miss the cache, each request computes its own      *)
(* result and is answered with it; once all have finished the cache holds  *)
(* exactly one entry for the fingerprint, the one the last writer wrote;   *)
(* the cache never holds more than 200 entries, and no request fails       *)
(* because of the race: a request is answered 200 exactly when its own     *)
(* provider phase returned a text that parses and normalizes.              *)
(***************************************************************************)
RaceKey == cacheKey(flow, req)

OwnPlaces == {j \in 1..Len(CACHE) : CACHE[j].key = RaceKey}

Wrote(k) == \E j \in 1..Len(rWrites) : rWrites[j].who = k

LastWrite == rWrites[Len(rWrites)]

\* The provider phase of request k gave a text the handler turns into data.
Computed(k) ==
  /\ rOutcome[k].kind = "text"
  /\ JSON_parse(OrElse(rOutcome[k].text, TXT_emptyObject)).ok
  /\ ~NormalizedData[flow, req.artStyle, rOutcome[k].text].threw

C21_LastWriterWins ==
  /\ Len(CACHE) <= CACHE_MAX
  /\ Cardinality(OwnPlaces) <= 1
  /\ \A k \in Racers :
       rPc[k] = "done" =>
         /\ rReply[k].status = 200 <=> Computed(k)
         /\ Computed(k) =>
              /\ rReply[k].data = NormalizedData[flow, req.artStyle, rOutcome[k].text]
              /\ Wrote(k)
  /\ (\A k \in Racers : rPc[k] = "done" /\ Wrote(k)) =>
       \E j \in OwnPlaces :
         CACHE[j] = CacheEntry(RaceKey, LastWrite.value, LastWrite.at + CACHE_TTL_MS)

\* Two requests were in flight together, the first stored one result on a
\* map one entry below capacity, the second a different one on the map
\* that was full by then, which evicted the oldest entry.
C21_Witness ==
  /\ \A k \in Racers : rPc[k] = "done" /\ Wrote(k)
  /\ rWrites[1].waiting # {}
  /\ rWrites[1].value # LastWrite.value
  /\ Len(CACHE) = CACHE_MAX - 1
  /\ CACHE[1].key = OtherKey(2)

(***************************************************************************)
(* C22: a text-flow request whose idea is missing, empty or not a string,  *)
(* and an image-flow request whose image field is missing or not a file,   *)
(* is answered 400 with no provider call and no cache access, whatever the *)
(* other request fields are and whether or not the provider credential is  *)
(* configured.                                                             *)
(***************************************************************************)
BadInput ==
  IF flow = "enhance" THEN ~(req.idea.t = "string" /\ Len(req.idea.s) > 0)
  ELSE ~req.file

RejectedWith(status) ==
  /\ pc' = "done"
  /\ reply'.status = status
  /\ calls' = <<>>
  /\ CACHE' = CACHE

C22_AsStated == [][(pc = "start" /\ BadInput) => RejectedWith(400)]_vars

\* As the handlers decide it: the image flow tests the credential before it
\* reads the form, and answers 500 without it; the text flow tests idea
\* first.  Neither calls the provider or touches the cache.
C22_ClientError ==
  [][(pc = "start" /\ BadInput) =>
       RejectedWith(IF flow # "enhance" /\ ~req.apiKey THEN 500 ELSE 400)]_vars

\* A rejected image-flow request without a file, whose fingerprint has an
\* expired entry in the cache: a lookup would have deleted the entry.
C22_Witness ==
  /\ pc = "done"
  /\ flow = "analyze"
  /\ BadInput
  /\ reply.status = 400
  /\ CACHE # <<>>
  /\ now > CACHE[1].expiresAt

(***************************************************************************)
(* C24: a request whose artStyle is not one of the table's own keys is     *)
(* processed exactly as one with the style "none": once the provider has   *)
(* answered with a text that parses, the response is the one the same text *)
(* gets under "none" (the "none" negative list merged in), and no 500 is   *)
(* caused by the key.                                                      *)
(***************************************************************************)
AnsweredAsNone ==
  LET base == NormalizedData[flow, "none", response]
  IN  /\ reply.status = IF base.threw THEN 500 ELSE 200
      /\ ~base.threw => reply.data = base

ProviderTextParsed ==
  pc = "done" /\ gotResponse /\ JSON_parse(OrElse(response, TXT_emptyObject)).ok

C24_UnknownKeyDegrades ==
  (ProviderTextParsed /\ req.artStyle \notin StyleKeys) => AnsweredAsNone

(***************************************************************************)
(* C23: once a provider response is obtained, the request is answered 502  *)
(* exactly when the response text is non-empty and does not parse as JSON; *)
(* every response whose text parses as JSON, whatever its shape, and every *)
(* empty response text is repaired by normalization and answered 200.      *)
(* Stated for the two routes.                                              *)
(***************************************************************************)
ResponseObtained == pc = "done" /\ gotResponse /\ flow # "legacy"

C23_ParseDecides ==
  ResponseObtained =>
    /\ reply.status = 502 <=> (response # <<>> /\ ~JSON_parse(response).ok)
    /\ (response = <<>> \/ JSON_parse(response).ok) => reply.status = 200

(***************************************************************************)
(* C25: extractRetryAfterSeconds returns the ceiling of the seconds of a   *)
(* "retry in N s" phrase of the error message when there is one ("retry in *)
(* 12.3s" gives 13); otherwise the ceiling of the seconds of a structured  *)
(* RetryInfo.retryDelay of the JSON-encoded message; otherwise null.  The  *)
(* phrase takes priority when both are present.                            *)
(***************************************************************************)
\* The message has the phrase: the words, whitespace, a digit-and-dot
\* text, and the unit right after it.
HasPhrase == pIn.worded /\ pIn.gap # <<>> /\ pIn.unit \in {<<"s">>, <<"S">>}

\* The ceiling of the decimal numbers among the sampled texts.
CeilingOf(num) ==
  CASE num = <<"1", "2", ".", "3">> -> 13
    [] num = <<"0">> -> 0
    [] num = <<"0", ".", "0">> -> 0
    [] num = <<".", "5">> -> 1
    [] num = <<"2", ".">> -> 2
    [] num = <<"0", "0", "7">> -> 7
    [] num = <<"4", "0">> -> 40

\* The sampled texts that are no decimal number, and the one too large for
\* a double.
Malformed(num) == num \in {<<".">>, <<"1", ".", "2", ".", "3">>}

\* The seconds of the retryDelay of the first RetryInfo element of the
\* sampled details, rounded up; 0 stands for none.
DelayCeilingOf(details) ==
  CASE details = <<>> -> 0
    [] Len(details) = 1 /\ details[1].retryDelay = Str(<<"4", "0", "s">>) -> 40
    [] Len(details) = 2 /\ details[1].retryDelay = Undefined
         /\ details[2].retryDelay = Str(<<"0", ".", "5", "s">>) -> 1
    [] Len(details) = 1 /\ details[1].retryDelay = Str(<<"1", "m", "2", ".", "5", "S">>) -> 3
    [] OTHER -> 0

FromDetails ==
  LET secs == DelayCeilingOf(pIn.error.details)
  IN  pOut.seconds = IF secs = 0 THEN Null ELSE Finite(secs, FALSE)

C25_AsStated ==
  pPc = "output" =>
    IF HasPhrase /\ ~Malformed(pIn.num) /\ pIn.num # OverflowingText
    THEN pOut.seconds = Finite(CeilingOf(pIn.num), FALSE)
    ELSE HasPhrase \/ FromDetails

\* As the function computes it: the ceiling is raised to 1 when it is 0; a
\* phrase whose digit-and-dot text is no number gives NaN, and one too large
\* for a double Infinity, both without a look at the details.
C25_RetryAfter ==
  pPc = "output" =>
    IF ~HasPhrase THEN FromDetails
    ELSE IF Malformed(pIn.num) THEN pOut.seconds = NaN
    ELSE IF pIn.num = OverflowingText THEN pOut.seconds = Infinity
    ELSE pOut.seconds = Finite(IF CeilingOf(pIn.num) = 0 THEN 1 ELSE CeilingOf(pIn.num), FALSE)

\* "retry in 12.3s" in the message of an error whose details carry a
\* RetryInfo of 40 seconds: the result is 13.
C25_Witness ==
  /\ pPc = "output"
  /\ HasPhrase
  /\ pIn.num = <<"1", "2", ".", "3">>
  /\ DelayCeilingOf(pIn.error.details) = 40
  /\ pOut.seconds = Finite(13, FALSE)

(***************************************************************************)
(* C30: in every 429 response retryAfterSeconds is null or an integer of   *)
(* at least 1, whatever digit-and-dot text follows "retry in" in the error *)
(* message, and the Retry-After header is present exactly when             *)
(* retryAfterSeconds is not null, and then carries the same number.        *)
(***************************************************************************)
WholeAtLeastOne(v) ==
  \/ v.kind = "huge"
  \/ v.kind = "number" /\ ~v.frac /\ v.whole >= 1

RetryAfterWellFormed(r) ==
  /\ r.retryAfterSeconds = Null \/ WholeAtLeastOne(r.retryAfterSeconds)
  /\ r.retryAfter.present <=> r.retryAfterSeconds # Null
  /\ r.retryAfter.present => r.retryAfter.value = r.retryAfterSeconds

C30_RetryAfterHeader ==
  pPc = "output" =>
    \A r \in {pOut.exhausted, pOut.caught} : r.status = 429 => RetryAfterWellFormed(r)

(***************************************************************************)
(* C26: provided every provider call eventually returns or throws, every   *)
(* request eventually produces exactly one HTTP response, whose status is  *)
(* one of 200, 400, 429, 500, 502, 503: the retry and fallback loops end,  *)
(* no exception escapes the handler, and nothing is answered before the    *)
(* handler is done or changed after it.                                    *)
(***************************************************************************)
HttpStatuses == {200, 400, 429, 500, 502, 503}

C26_OneResponse ==
  /\ <>(pc = "done")
  /\ [](pc = "done" => reply.status \in HttpStatuses)
  /\ [](pc # "done" => reply = NoResponseYet)
  /\ [][pc = "done" => reply' = reply]_vars

\* A request answered 503 after the provider failed on every attempt of
\* every model: the longest run of the two loops.
C26_Witness ==
  /\ pc = "done"
  /\ reply.status = 503
  /\ Len(calls) = Len(modelFallbacks) * Len(delays(flow))


\* Failed with an error that both isQuotaExceededError and isOverloadedError
\* accept.
BothFailed(c) == c.outcome \in (QuotaNames \cap OverloadedNames)

\* C27: a call that fails with an error matching both detectors is never
\* followed by another call on its model; the call after it, if any, is
\* attempt 1 on the next model of the list; a request that is answered
\* with such a failure as its last call has tried the last model and is
\* answered 429, with the quota-exceeded code.
C27_BothIsQuota ==
  \A k \in 1..Len(calls) :
    BothFailed(calls[k]) =>
      /\ \A j \in (k + 1)..Len(calls) : calls[j].model # calls[k].model
      /\ k < Len(calls) =>
           /\ PlaceOf(calls[k + 1].model) = PlaceOf(calls[k].model) + 1
           /\ calls[k + 1].attempt = 1
      /\ (k = Len(calls) /\ pc = "done") =>
           /\ calls[k].model = ListOrder[Len(ListOrder)]
           /\ reply.status = 429
           /\ reply.error = "Quota exceeded"

\* An error matching both detectors came on a retry of the first model
\* after an overloaded failure, the second model was tried, and the last
\* model failed with such an error too.
C27_Witness ==
  /\ pc = "done"
  /\ Len(calls) >= 3
  /\ OverloadedFailed(calls[1])
  /\ BothFailed(calls[2])
  /\ calls[2].attempt = 2
  /\ BothFailed(LastCall)
  /\ reply.status = 429


\* Every piece between two commas of the text, and before the first and
\* after the last, holds something other than whitespace.
WellFormedList(text) ==
  \A k \in 1..Len(SplitComma(text)) : Trim(SplitComma(text)[k]) # <<>>

\* C29: the negative field of a result is a well-formed comma-separated
\* list, with no empty term and no trailing comma, also when the raw negative
\* already holds every phrase of the style list or of the baseline.
C29_WellFormedNegative ==
  /\ (hPc \in {"output", "again"} /\ ~hResult.threw) => WellFormedList(hResult.negative)
  /\ (hPc = "again" /\ ~hAgain.threw) => WellFormedList(hAgain.negative)

=============================================================================
